---- MODULE Spec2Model ----
(***************************************************************************)
(* Quantum chess (czy-ustc/chess): the board, the move generator, the      *)
(* action rules with measurement, and the controller's run/undo.           *)
(*                                                                         *)
(* Probabilities are dyadic rationals in the program (1, 1/2, 1/4, ... and *)
(* their sums); they are kept as integers in units of 1/One, so that the   *)
(* program's float tests (p == 1, p < 1, 1 - p > 1e-6, p > 0) are exact    *)
(* integer tests as long as 1/One > 1e-6.                                  *)
(***************************************************************************)
EXTENDS Integers, Sequences, FiniteSets, TLC

\* ------------------------------------------------------------------ bounds
\* Number of halvings a probability can take exactly (One = 2^HalvingBits).
HalvingBits == 12
One == 2 ^ HalvingBits
Half == One \div 2
\* Plies played from an initial board in the play, twin and controller runs.
MaxMoves == 2
\* Plies played from the standard position in the guided run.
MaxLine == 11
\* Snapshots the controller keeps.
MaxStack == 2
\* Endgames saved in the database.
MaxSaves == 2
\* Plies played from the standard position in the queen-side run.
MaxQueenSide == 4

\* ------------------------------------------------------------------ enums
WHITE == "WHITE"
BLACK == "BLACK"
KING == "KING"
QUEEN == "QUEEN"
ROOK == "ROOK"
BISHOP == "BISHOP"
KNIGHT == "KNIGHT"
PAWN == "PAWN"
UNOCCUPIED == "UNOCCUPIED"
REACHABLE == "REACHABLE"
UNREACHABLE == "UNREACHABLE"
\* Python's None: a missing piece, a missing square.
None == <<>>

\* ------------------------------------------------------------------ helpers
Range(s) == {s[i] : i \in 1..Len(s)}

RECURSIVE Flatten(_)
Flatten(ss) == IF ss = <<>> THEN <<>> ELSE Head(ss) \o Flatten(Tail(ss))

RECURSIVE SumProb(_)
SumProb(places) ==
    IF places = <<>> THEN 0 ELSE Head(places)[3] + SumProb(Tail(places))

Sq(place) == <<place[1], place[2]>>

Perms(s) ==
    LET n == Len(s)
        bij == {f \in [1..n -> 1..n] : \A i, j \in 1..n : f[i] = f[j] => i = j}
    IN  {[i \in 1..n |-> s[f[i]]] : f \in bij}

\* ------------------------------------------------------------------ Piece
\* A piece is [color, name, rule, places]; rule is the move rule object chosen
\* from the name when the piece is constructed.
Piece(color, name, places) ==
    [color |-> color, name |-> name, rule |-> name, places |-> places]

add(places, place) == Append(places, place)

\* Index of the first placement on the square, 0 when there is none.
PlaceIndex(places, sq) ==
    IF \E i \in 1..Len(places) : Sq(places[i]) = sq
    THEN CHOOSE i \in 1..Len(places) :
            /\ Sq(places[i]) = sq
            /\ \A j \in 1..(i - 1) : Sq(places[j]) # sq
    ELSE 0

\* Piece.remove: the removed placement (None when absent) and the list left.
removed(places, sq) ==
    IF PlaceIndex(places, sq) = 0 THEN None ELSE places[PlaceIndex(places, sq)]

remove(places, sq) ==
    LET k == PlaceIndex(places, sq)
    IN  IF k = 0 THEN places
        ELSE [i \in 1..(Len(places) - 1) |-> IF i < k THEN places[i] ELSE places[i + 1]]

clear(places) == <<>>

pfind(places, sq) == PlaceIndex(places, sq) # 0

get(places, sq) ==
    IF PlaceIndex(places, sq) = 0 THEN 0 ELSE places[PlaceIndex(places, sq)][3]

superposed(places) == ~(Len(places) = 1 /\ places[1][3] = One)

\* Piece.measure: every outcome of the draw r in [0,1) and of the shuffle.
\* A placement wins when it comes first in the shuffle and r - p < 1e-6, which
\* r = 0 satisfies for every p; no placement wins when r >= total + 1e-6,
\* possible only when the total is below 1, and then the list stays shuffled.
measure(places) ==
    {[ret |-> Sq(places[i]), places |-> <<<<places[i][1], places[i][2], One>>>>] :
        i \in 1..Len(places)}
    \cup (IF SumProb(places) < One
          THEN {[ret |-> None, places |-> q] : q \in Perms(places)}
          ELSE {})

\* ------------------------------------------------------------------ Rule
overstep(sq) == ~(1 <= sq[1] /\ sq[1] <= 8 /\ 1 <= sq[2] /\ sq[2] <= 8)

\* Rule.find: index of the first piece with a placement on the square, 0 = None.
find(sq, pieces) ==
    IF \E i \in 1..Len(pieces) : pfind(pieces[i].places, sq)
    THEN CHOOSE i \in 1..Len(pieces) :
            /\ pfind(pieces[i].places, sq)
            /\ \A j \in 1..(i - 1) : ~pfind(pieces[j].places, sq)
    ELSE 0

\* ------------------------------------------------------------------ board
\* ChessBoard.place_piece: the square map; a later piece (and a later placement)
\* overwrites an earlier one on the same square.
place_piece(pieces) ==
    LET occ == UNION {{Sq(pieces[i].places[j]) : j \in 1..Len(pieces[i].places)} :
                        i \in 1..Len(pieces)}
        lastPiece(sq) == CHOOSE i \in 1..Len(pieces) :
                            /\ pfind(pieces[i].places, sq)
                            /\ \A j \in (i + 1)..Len(pieces) : ~pfind(pieces[j].places, sq)
        lastPlace(pl, sq) == CHOOSE j \in 1..Len(pl) :
                            /\ Sq(pl[j]) = sq
                            /\ \A k \in (j + 1)..Len(pl) : Sq(pl[k]) # sq
    IN  [sq \in occ |->
            LET p == pieces[lastPiece(sq)]
            IN  <<p.color, p.name, p.places[lastPlace(p.places, sq)][3]>>]

\* data[key] of the defaultdict: None for a square without an entry.
DataAt(data, sq) == IF sq \in DOMAIN data THEN data[sq] ELSE None

\* ChessBoard.__init__: the board of a piece list, White to move.
ChessBoard(pieces) ==
    [pieces |-> pieces, data |-> place_piece(pieces), color |-> WHITE, record |-> ""]

\* A winner decided by the presence of king objects, placed or not.
game_over_any(pieces) ==
    LET white_king == \E i \in 1..Len(pieces) :
            pieces[i].color = WHITE /\ pieces[i].name = KING
        black_king == \E i \in 1..Len(pieces) :
            pieces[i].color = BLACK /\ pieces[i].name = KING
    IN  IF white_king /\ black_king THEN "NULL"
        ELSE IF white_king /\ ~black_king THEN "WHITE"
        ELSE IF black_king /\ ~white_king THEN "BLACK"
        ELSE "DRAW"

\* ChessBoard.game_over: the winner by the kings that still have a placement.
game_over(pieces) ==
    LET white_king == \E i \in 1..Len(pieces) :
            pieces[i].color = WHITE /\ pieces[i].name = KING /\ Len(pieces[i].places) > 0
        black_king == \E i \in 1..Len(pieces) :
            pieces[i].color = BLACK /\ pieces[i].name = KING /\ Len(pieces[i].places) > 0
    IN  IF white_king /\ black_king THEN "NULL"
        ELSE IF white_king /\ ~black_king THEN "WHITE"
        ELSE IF black_king /\ ~white_king THEN "BLACK"
        ELSE "DRAW"

\* ChessBoard.get_piece: the first piece that has a placement on every key.
get_piece(pieces, keys) ==
    IF \E i \in 1..Len(pieces) : \A k \in 1..Len(keys) : pfind(pieces[i].places, keys[k])
    THEN CHOOSE i \in 1..Len(pieces) :
            /\ \A k \in 1..Len(keys) : pfind(pieces[i].places, keys[k])
            /\ \A j \in 1..(i - 1) : \E k \in 1..Len(keys) : ~pfind(pieces[j].places, keys[k])
    ELSE 0

\* game.standard through Game.__init__: every placement gets probability 1.
BackRank == <<ROOK, KNIGHT, BISHOP, QUEEN, KING, BISHOP, KNIGHT, ROOK>>
standard ==
    [i \in 1..8 |-> Piece(WHITE, BackRank[i], <<<<i, 1, One>>>>)]
    \o [i \in 1..8 |-> Piece(WHITE, PAWN, <<<<i, 2, One>>>>)]
    \o [i \in 1..8 |-> Piece(BLACK, BackRank[i], <<<<i, 8, One>>>>)]
    \o [i \in 1..8 |-> Piece(BLACK, PAWN, <<<<i, 7, One>>>>)]

\* Game.__init__: the list kept as _pieces; each entry is a kind and a place list.
Game(pieces) ==
    [i \in 1..Len(pieces) |->
        [color |-> pieces[i].color, name |-> pieces[i].name, places |-> pieces[i].places]]

\* ChessBoard.init_piece: one Piece per entry, holding the entry's place list.
init_piece(pieces) ==
    [i \in 1..Len(pieces) |-> Piece(pieces[i].color, pieces[i].name, pieces[i].places)]

\* ------------------------------------------------------------------ MoveRule
\* One ray of n steps in direction (dx, dy): zip(range(...), range(...)).
Ray(dx, dy) == [k \in 1..7 |-> <<k * dx, k * dy>>]
Step(dx, dy) == <<<<dx, dy>>>>
RookRays == <<Ray(1, 0), Ray(-1, 0), Ray(0, 1), Ray(0, -1)>>
BishopRays == <<Ray(1, 1), Ray(-1, 1), Ray(1, -1), Ray(-1, -1)>>

\* The `moves` attribute of each move rule class.
moves(rule) ==
    CASE rule = PAWN ->
            <<Step(0, 1), Step(0, 2), Step(1, 1), Step(-1, 1),
              Step(0, -1), Step(0, -2), Step(1, -1), Step(-1, -1)>>
      [] rule = ROOK -> RookRays
      [] rule = KNIGHT ->
            <<Step(1, 2), Step(2, 1), Step(-1, 2), Step(-2, 1),
              Step(1, -2), Step(2, -1), Step(-1, -2), Step(-2, -1)>>
      [] rule = BISHOP -> BishopRays
      [] rule = QUEEN -> RookRays \o BishopRays
      [] rule = KING ->
            <<Step(1, 1), Step(1, 0), Step(1, -1), Step(0, 1),
              Step(0, -1), Step(-1, 1), Step(-1, 0), Step(-1, -1)>>

Abs(x) == IF x < 0 THEN -x ELSE x

\* A check for which any piece blocks, whatever its probability on the square.
MoveRuleCheck_solid(color, cur, next, piece) ==
    IF piece = None THEN UNOCCUPIED
    ELSE IF piece[1] # color THEN REACHABLE
    ELSE UNREACHABLE

\* MoveRule.check (king, queen, bishop; the rook's starts from it).
MoveRuleCheck(color, cur, next, piece) ==
    IF piece = None \/ One - piece[3] > 0 THEN UNOCCUPIED
    ELSE IF piece[1] # color THEN REACHABLE
    ELSE UNREACHABLE

\* A pawn check that allows the two-step advance from every row.
PawnCheck_anyrow(color, cur, next, piece) ==
    IF color = WHITE /\ cur[2] > next[2] THEN UNREACHABLE
    ELSE IF color = BLACK /\ cur[2] < next[2] THEN UNREACHABLE
    ELSE IF cur[1] = next[1]
        THEN (IF ~(piece = None \/ One - piece[3] > 0) THEN UNREACHABLE ELSE REACHABLE)
        ELSE (IF piece = None \/ piece[1] = color THEN UNREACHABLE ELSE REACHABLE)

PawnCheck(color, cur, next, piece) ==
    IF color = WHITE /\ cur[2] > next[2] THEN UNREACHABLE
    ELSE IF color = BLACK /\ cur[2] < next[2] THEN UNREACHABLE
    ELSE IF Abs(cur[2] - next[2]) = 2
            /\ ~((color = WHITE /\ cur[2] = 2) \/ (color = BLACK /\ cur[2] = 7))
        THEN UNREACHABLE
    ELSE IF cur[1] = next[1]
        THEN (IF ~(piece = None \/ One - piece[3] > 0) THEN UNREACHABLE ELSE REACHABLE)
        ELSE (IF piece = None \/ piece[1] = color THEN UNREACHABLE ELSE REACHABLE)

RookCheck(color, cur, next, piece) ==
    LET state == MoveRuleCheck(color, cur, next, piece)
    IN  IF /\ piece # None
           /\ state = UNREACHABLE
           /\ piece[1] = color
           /\ piece[2] = KING
           /\ piece[3] = One
           /\ next[1] = 5
           /\ (cur[1] = 1 \/ cur[1] = 8)
           /\ cur[2] = (IF color = WHITE THEN 1 ELSE 8)
        THEN REACHABLE
        ELSE state

KnightCheck(color, cur, next, piece) ==
    IF piece # None /\ piece[1] = color /\ piece[3] = One THEN UNREACHABLE
    ELSE REACHABLE

check(rule, color, cur, next, piece) ==
    CASE rule = PAWN -> PawnCheck(color, cur, next, piece)
      [] rule = ROOK -> RookCheck(color, cur, next, piece)
      [] rule = KNIGHT -> KnightCheck(color, cur, next, piece)
      [] OTHER -> MoveRuleCheck(color, cur, next, piece)

\* The inner loop of MoveRule.next over one entry of `moves`, from step k on.
RECURSIVE RayNext(_, _, _, _, _, _)
RayNext(rule, color, selected, data, ray, k) ==
    IF k > Len(ray) THEN <<>>
    ELSE LET nxt == <<selected[1] + ray[k][1], selected[2] + ray[k][2]>>
         IN  IF overstep(nxt) THEN <<>>
             ELSE LET state == check(rule, color, selected, nxt, DataAt(data, nxt))
                  IN  IF state = UNOCCUPIED
                        THEN <<nxt>> \o RayNext(rule, color, selected, data, ray, k + 1)
                      ELSE IF state = REACHABLE THEN <<nxt>>
                      ELSE <<>>

\* MoveRule.next: the destinations from `selected`, in generation order.
next(rule, color, selected, data) ==
    Flatten([m \in 1..Len(moves(rule)) |->
                RayNext(rule, color, selected, data, moves(rule)[m], 1)])

\* ------------------------------------------------------------------ actions
\* An action is <<sources, targets>>, each a tuple of squares.
\* ChessBoard.select_piece: the placement squares of the colour, piece by piece.
select_piece(pieces, color) ==
    Flatten([i \in 1..Len(pieces) |->
                IF pieces[i].color # color THEN <<>>
                ELSE [j \in 1..Len(pieces[i].places) |-> Sq(pieces[i].places[j])]])

\* The first loop of ChessBoard.actions: the basic one-source one-target moves.
BasicActions(b, color) ==
    LET srcs == select_piece(b.pieces, color)
    IN  Flatten([s \in 1..Len(srcs) |->
            LET piece == b.pieces[get_piece(b.pieces, <<srcs[s]>>)]
                dsts == next(piece.rule, piece.color, srcs[s], b.data)
            IN  [d \in 1..Len(dsts) |-> <<<<srcs[s]>>, <<dsts[d]>>>>]])

\* The distinct elements of a sequence in order of first occurrence (dict keys).
Keys(s) ==
    LET firsts == SelectSeq([i \in 1..Len(s) |-> <<i, s[i]>>],
                            LAMBDA z : \A j \in 1..(z[1] - 1) : s[j] # z[2])
    IN  [i \in 1..Len(firsts) |-> firsts[i][2]]

\* itertools.combinations(s, 2), in its order.
combinations(s) ==
    Flatten([i \in 1..Len(s) |-> [j \in 1..(Len(s) - i) |-> <<s[i], s[i + j]>>]])

IsSimple(a) == Len(a[1]) = 1 /\ Len(a[2]) = 1

\* A generator without quantum moves: every piece moves like a classical one.
SplitTransform_pawnlike(actions, pieces) == actions

\* SplitMove.transform
SplitTransform(actions, pieces) ==
    LET simple == SelectSeq(actions,
                    LAMBDA a : IsSimple(a) /\ pieces[find(a[1][1], pieces)].name # PAWN)
        keys == Keys([i \in 1..Len(simple) |-> simple[i][1][1]])
        ok(a) == LET src_piece == pieces[find(a[1][1], pieces)]
                     d == find(a[2][1], pieces)
                 IN  d = 0 \/ (pieces[d].color = src_piece.color
                               /\ pieces[d].name = src_piece.name)
        targets(source) ==
            LET mine == SelectSeq(simple, LAMBDA a : a[1][1] = source /\ ok(a))
            IN  [i \in 1..Len(mine) |-> mine[i][2][1]]
        splits(source) ==
            LET pairs == SelectSeq(combinations(targets(source)), LAMBDA c : c[1] # c[2])
            IN  [i \in 1..Len(pairs) |-> <<<<source>>, pairs[i]>>]
    IN  actions \o Flatten([k \in 1..Len(keys) |-> splits(keys[k])])

\* MergeMove.transform
MergeTransform(actions, pieces) ==
    LET simple == SelectSeq(actions, IsSimple)
        keys == Keys([i \in 1..Len(simple) |-> simple[i][2][1]])
        sources(target) ==
            LET mine == SelectSeq(simple, LAMBDA a : a[2][1] = target)
            IN  [i \in 1..Len(mine) |-> mine[i][1][1]]
        merges(target) ==
            LET pairs == SelectSeq(combinations(sources(target)),
                            LAMBDA c : /\ pfind(pieces[find(c[1], pieces)].places, c[2])
                                       /\ find(target, pieces) = 0
                                       /\ c[1] # c[2])
            IN  [i \in 1..Len(pairs) |-> <<pairs[i], <<target>>>>]
    IN  actions \o Flatten([k \in 1..Len(keys) |-> merges(keys[k])])

\* ChessBoard.actions for the side to move.
actions(b) == MergeTransform(SplitTransform(BasicActions(b, b.color), b.pieces), b.pieces)


\* ------------------------------------------------------------------ ActionRule
\* Mutations of one piece of the list, by index.
SetPlaces(pieces, i, places) == [pieces EXCEPT ![i].places = places]
Rem(pieces, i, sq) == SetPlaces(pieces, i, remove(pieces[i].places, sq))
Add(pieces, i, place) == SetPlaces(pieces, i, add(pieces[i].places, place))

\* chr(ord('a') + col - 1) for the columns 1..9 an action can name, and str(row).
FileChars == <<"a", "b", "c", "d", "e", "f", "g", "h", "i">>
place2str(sq) == FileChars[sq[1]] \o ToString(sq[2])

piece2str(piece) ==
    CASE piece.name = KING -> "K"
      [] piece.name = QUEEN -> "Q"
      [] piece.name = ROOK -> "R"
      [] piece.name = BISHOP -> "B"
      [] piece.name = KNIGHT -> "N"
      [] piece.name = PAWN -> ""

Sign(x) == IF x = 0 THEN 0 ELSE IF x > 0 THEN 1 ELSE -1
Max(a, b) == IF a >= b THEN a ELSE b

\* The probability found on square sq by the loop over the pieces: that of the
\* first piece whose first placement there has probability > 0, else 0.
FirstProb(sq, pieces) ==
    IF \E i \in 1..Len(pieces) : get(pieces[i].places, sq) > 0
    THEN get(pieces[CHOOSE i \in 1..Len(pieces) :
                        /\ get(pieces[i].places, sq) > 0
                        /\ \A j \in 1..(i - 1) : get(pieces[j].places, sq) = 0].places, sq)
    ELSE 0

\* A road on which nothing is ever in the way.
obstacle_free(source, target, pieces) == 0

\* ActionRule.obstacle
obstacle(source, target, pieces) ==
    LET vx == target[1] - source[1]
        vy == target[2] - source[2]
        n == Max(Abs(vx), Abs(vy))
        at(k) == <<source[1] + k * Sign(vx), source[2] + k * Sign(vy)>>
        hit == {k \in 1..(n - 1) : FirstProb(at(k), pieces) > 0}
    IN  IF vx # 0 /\ vy # 0 /\ Abs(vx) # Abs(vy) THEN 0
        ELSE IF hit = {} THEN 0
        ELSE FirstProb(at(CHOOSE k \in hit : \A m \in hit : k <= m), pieces)

\* What a rule's action leaves: the piece list, the record, and whether it raised
\* (then the list holds the mutations made before the exception).
Done(pieces, record) == [pieces |-> pieces, record |-> record, err |-> FALSE]
Raised(pieces) == [pieces |-> pieces, record |-> "", err |-> TRUE]

MoveCondition(color, name, source, target, data) ==
    Len(source) = 1 /\ Len(target) = 1 /\ DataAt(data, target[1]) = None

\* A move rule that knows no promotion: a pawn reaching the last rank just moves.
MoveAction_plain(color, name, source, target, pieces) ==
    LET i == find(source[1], pieces)
        piece == pieces[i]
        record == piece2str(piece) \o place2str(source[1]) \o "-" \o place2str(target[1])
        probability == removed(piece.places, source[1])[3]
        left == Rem(pieces, i, source[1])
        value == obstacle(source[1], target[1], left)
    IN  IF probability < One
        THEN {Done(Add(left, i, <<target[1][1], target[1][2], probability>>), record)}
        ELSE IF value > 0
        THEN {Done(Add(Add(left, i, <<target[1][1], target[1][2], value>>),
                       i, <<source[1][1], source[1][2], One - value>>), record)}
        ELSE {Done(Add(left, i, <<target[1][1], target[1][2], probability>>), record)}

MoveAction(color, name, source, target, pieces) ==
    LET promotion == name = PAWN /\ target[1][2] = (IF color = WHITE THEN 8 ELSE 1)
        i == find(source[1], pieces)
        piece == pieces[i]
        record == piece2str(piece) \o place2str(source[1]) \o "-" \o place2str(target[1])
        probability == removed(piece.places, source[1])[3]
        left == Rem(pieces, i, source[1])
        value == obstacle(source[1], target[1], left)
    IN  IF promotion
        THEN {Done(IF m.ret = source[1]
                   THEN [pieces EXCEPT ![i].places = <<<<target[1][1], target[1][2], One>>>>,
                                       ![i].name = QUEEN]
                   ELSE SetPlaces(pieces, i, m.places),
                   place2str(target[1]) \o "-Q") : m \in measure(piece.places)}
        ELSE IF probability < One
        THEN {Done(Add(left, i, <<target[1][1], target[1][2], probability>>), record)}
        ELSE IF value > 0
        THEN {Done(Add(Add(left, i, <<target[1][1], target[1][2], value>>),
                       i, <<source[1][1], source[1][2], One - value>>), record)}
        ELSE {Done(Add(left, i, <<target[1][1], target[1][2], probability>>), record)}

AttackCondition(color, name, source, target, data) ==
    /\ Len(source) = 1 /\ Len(target) = 1
    /\ DataAt(data, target[1]) # None
    /\ DataAt(data, target[1])[1] # color

AttackAction(color, name, source, target, pieces) ==
    LET i == find(source[1], pieces)
        record == piece2str(pieces[i]) \o place2str(source[1]) \o "x" \o place2str(target[1])
        after(m) ==
            LET measured == SetPlaces(pieces, i, m.places)
                d == find(target[1], measured)
            IN  IF m.ret # source[1] THEN Done(measured, record)
                ELSE IF d = 0 THEN Raised(measured)
                ELSE Done(SetPlaces(Rem(measured, d, target[1]), i,
                                    <<<<target[1][1], target[1][2], One>>>>), record)
    IN  {after(m) : m \in measure(pieces[i].places)}

CastlingCondition(color, name, source, target, data) ==
    /\ Len(source) = 1 /\ Len(target) = 1
    /\ name = ROOK
    /\ DataAt(data, target[1]) # None
    /\ DataAt(data, target[1])[1] = color
    /\ DataAt(data, target[1])[2] = KING
    /\ DataAt(data, target[1])[3] = One

CastlingAction(color, name, source, target, pieces) ==
    LET long == source[1][1] = 1
        rook == IF long THEN 4 ELSE 6
        king == IF long THEN 3 ELSE 7
        record == IF long THEN "0-0-0" ELSE "0-0"
        i == find(source[1], pieces)
        moved == Add(Rem(pieces, i, source[1]), i,
                     <<rook, source[1][2], removed(pieces[i].places, source[1])[3]>>)
        k == find(target[1], moved)
    IN  IF k = 0 THEN {Raised(moved)}
        ELSE {Done(Add(Rem(moved, k, target[1]), k,
                       <<king, target[1][2], removed(moved[k].places, target[1])[3]>>),
                   record)}

\* A meeting condition that also takes a friendly king placed with probability 1.
MeetCondition_any(color, name, source, target, data) ==
    /\ Len(source) = 1 /\ Len(target) = 1
    /\ DataAt(data, target[1]) # None
    /\ DataAt(data, target[1])[1] = color

MeetCondition(color, name, source, target, data) ==
    /\ Len(source) = 1 /\ Len(target) = 1
    /\ DataAt(data, target[1]) # None
    /\ DataAt(data, target[1])[1] = color
    /\ (DataAt(data, target[1])[3] < One \/ DataAt(data, target[1])[2] # KING)

MeetAction(color, name, source, target, pieces) ==
    LET s == find(source[1], pieces)
        d == find(target[1], pieces)
        record == piece2str(pieces[s]) \o place2str(source[1]) \o "-" \o place2str(target[1])
        onTarget == <<<<target[1][1], target[1][2], One>>>>
        \* same kind: the two placements exchange their probabilities
        a1 == Rem(pieces, s, source[1])
        p1 == removed(pieces[s].places, source[1])[3]
        r2 == removed(a1[d].places, target[1])
        a2 == Rem(a1, d, target[1])
        a3 == Add(a2, s, <<target[1][1], target[1][2], p1>>)
        a4 == Add(a3, d, <<source[1][1], source[1][2], r2[3]>>)
        \* different kinds: the piece on the target is measured first
        after(m) ==
            LET b1 == SetPlaces(pieces, d, m.places)
            IN  IF ~superposed(b1[s].places)
                THEN {Done(IF m.ret # target[1] THEN SetPlaces(b1, s, onTarget) ELSE b1,
                           record)}
                ELSE {Done(IF m.ret # target[1] /\ m2.ret = source[1]
                           THEN SetPlaces(b1, s, onTarget)
                           ELSE SetPlaces(b1, s, m2.places), record) :
                        m2 \in measure(b1[s].places)}
    IN  IF d = 0 THEN {Raised(pieces)}
        ELSE IF pieces[s].name = pieces[d].name
        THEN (IF r2 = None THEN {Raised(a1)} ELSE {Done(a4, record)})
        ELSE UNION {after(m) : m \in measure(pieces[d].places)}

SplitCondition(color, name, source, target, data) == Len(target) = 2

SplitAction(color, name, source, target, pieces) ==
    LET d0 == find(target[1], pieces)
        d1 == find(target[2], pieces)
        s == find(source[1], pieces)
        record == piece2str(pieces[s]) \o place2str(source[1]) \o "-"
                    \o place2str(target[1]) \o "^" \o place2str(target[2])
        \* both targets occupied: the three probabilities rotate
        a1 == Rem(pieces, s, source[1])
        p1 == removed(pieces[s].places, source[1])[3]
        r2 == removed(a1[d0].places, target[1])
        a2 == Rem(a1, d0, target[1])
        r3 == removed(a2[d1].places, target[2])
        a3 == Rem(a2, d1, target[2])
        a4 == Add(a3, s, <<target[1][1], target[1][2], p1>>)
        a5 == Add(a4, d0, <<target[2][1], target[2][2], r2[3]>>)
        a6 == Add(a5, d1, <<source[1][1], source[1][2], r3[3]>>)
        \* otherwise an occupied target sends its placement to the source
        b1 == IF d0 = 0 THEN pieces
              ELSE Add(Rem(pieces, d0, target[1]), d0,
                       <<source[1][1], source[1][2], removed(pieces[d0].places, target[1])[3]>>)
        b2 == IF d1 = 0 THEN b1
              ELSE Add(Rem(b1, d1, target[2]), d1,
                       <<source[1][1], source[1][2], removed(b1[d1].places, target[2])[3]>>)
        probability == removed(b2[s].places, source[1])[3]
        b3 == Rem(b2, s, source[1])
        b4 == Add(b3, s, <<target[1][1], target[1][2], probability \div 2>>)
        b5 == Add(b4, s, <<target[2][1], target[2][2], probability \div 2>>)
    IN  IF d0 # 0 /\ d1 # 0
        THEN (IF r2 = None THEN {Raised(a1)}
              ELSE IF r3 = None THEN {Raised(a2)}
              ELSE {Done(a6, record)})
        ELSE {Done(b5, record)}

MergeCondition(color, name, source, target, data) == Len(source) = 2

\* A merge that keeps only the probability of the first source.
MergeAction_first(color, name, source, target, pieces) ==
    LET s == find(source[1], pieces)
        record == piece2str(pieces[s]) \o place2str(source[1]) \o "^"
                    \o place2str(source[2]) \o "-" \o place2str(target[1])
        r1 == removed(pieces[s].places, source[1])
        a2 == Rem(Rem(pieces, s, source[1]), s, source[2])
    IN  {Done(Add(a2, s, <<target[1][1], target[1][2], r1[3]>>), record)}

MergeAction(color, name, source, target, pieces) ==
    LET s == find(source[1], pieces)
        record == piece2str(pieces[s]) \o place2str(source[1]) \o "^"
                    \o place2str(source[2]) \o "-" \o place2str(target[1])
        r1 == removed(pieces[s].places, source[1])
        a1 == Rem(pieces, s, source[1])
        r2 == removed(a1[s].places, source[2])
        a2 == Rem(a1, s, source[2])
    IN  IF r2 = None THEN {Raised(a1)}
        ELSE {Done(Add(a2, s, <<target[1][1], target[1][2], r1[3] + r2[3]>>), record)}

\* ActionRule.__subclasses__(), in definition order.
Rules == <<"Move", "Attack", "Castling", "Meet", "Split", "Merge">>

condition(rule, color, name, source, target, data) ==
    CASE rule = "Move" -> MoveCondition(color, name, source, target, data)
      [] rule = "Attack" -> AttackCondition(color, name, source, target, data)
      [] rule = "Castling" -> CastlingCondition(color, name, source, target, data)
      [] rule = "Meet" -> MeetCondition(color, name, source, target, data)
      [] rule = "Split" -> SplitCondition(color, name, source, target, data)
      [] rule = "Merge" -> MergeCondition(color, name, source, target, data)

action(rule, color, name, source, target, pieces) ==
    CASE rule = "Move" -> MoveAction(color, name, source, target, pieces)
      [] rule = "Attack" -> AttackAction(color, name, source, target, pieces)
      [] rule = "Castling" -> CastlingAction(color, name, source, target, pieces)
      [] rule = "Meet" -> MeetAction(color, name, source, target, pieces)
      [] rule = "Split" -> SplitAction(color, name, source, target, pieces)
      [] rule = "Merge" -> MergeAction(color, name, source, target, pieces)

\* A turn that never passes to the other side.
Stay(color) == color

\* ChessBoard.move_piece, last assignment: the turn passes to the other side.
Other(color) == IF color = WHITE THEN BLACK ELSE WHITE

\* The rule move_piece applies: the first whose condition matches, "" for none.
Fired(b, source, target) ==
    LET piece == b.pieces[get_piece(b.pieces, source)]
        match == {r \in 1..Len(Rules) :
                    condition(Rules[r], piece.color, piece.name, source, target, b.data)}
    IN  IF match = {} THEN "" ELSE Rules[CHOOSE r \in match : \A q \in match : r <= q]

\* ChessBoard.move_piece: every board the call can leave, with err = it raised.
\* A raise leaves the turn, the record and the square map as they were.
move_piece(b, source, target) ==
    IF \E k \in 1..Len(source) : overstep(source[k])
    THEN {[board |-> b, err |-> TRUE, fired |-> ""]}
    ELSE IF get_piece(b.pieces, source) = 0
    THEN {[board |-> b, err |-> TRUE, fired |-> ""]}
    ELSE LET piece == b.pieces[get_piece(b.pieces, source)]
             rule == Fired(b, source, target)
         IN  IF rule = ""
             THEN {[board |-> [b EXCEPT !.color = Other(b.color)],
                    err |-> FALSE, fired |-> ""]}
             ELSE {IF o.err
                   THEN [board |-> [b EXCEPT !.pieces = o.pieces],
                         err |-> TRUE, fired |-> rule]
                   ELSE [board |-> [pieces |-> o.pieces,
                                    data |-> place_piece(o.pieces),
                                    color |-> Other(b.color),
                                    record |-> o.record],
                         err |-> FALSE, fired |-> rule] :
                   o \in action(rule, piece.color, piece.name, source, target, b.pieces)}


\* ------------------------------------------------------------------ state
VARIABLES
    chessboard,  \* Chess._chessboard, the live board
    stack,       \* Chess._stack, the snapshots taken by run
    twin,        \* a deep copy of the initial board, played in parallel
    plies,       \* history: move_piece calls that returned on the live board
    last,        \* history: the last operation and the board it started from
    trail,       \* history: the live board at each run call not yet undone
    det,         \* history: every action played so far had a single outcome
    database,    \* the endgames saved in the database; the id is the position
    game         \* game.standard, the list a new standard game is built from; followed
                 \* in the new-game run, the boards of the other runs being built
                 \* from lists of their own

vars == <<chessboard, stack, twin, plies, last, trail, det, database, game>>

\* A copy that forgets the superposition: every placement becomes certain.
copy_certain(b) ==
    [pieces |-> [i \in 1..Len(b.pieces) |->
                    [color |-> b.pieces[i].color, name |-> b.pieces[i].name,
                     rule |-> b.pieces[i].rule,
                     places |-> [j \in 1..Len(b.pieces[i].places) |->
                        <<b.pieces[i].places[j][1], b.pieces[i].places[j][2], One>>]]],
     data |-> place_piece([i \in 1..Len(b.pieces) |->
                    [b.pieces[i] EXCEPT !.places = [j \in 1..Len(b.pieces[i].places) |->
                        <<b.pieces[i].places[j][1], b.pieces[i].places[j][2], One>>]]]),
     color |-> b.color, record |-> b.record]

\* ChessBoard.copy: deepcopy keeps pieces, square map, turn and record.
copy(b) ==
    [pieces |-> [i \in 1..Len(b.pieces) |->
                    [color |-> b.pieces[i].color, name |-> b.pieces[i].name,
                     rule |-> b.pieces[i].rule,
                     places |-> [j \in 1..Len(b.pieces[i].places) |-> b.pieces[i].places[j]]]],
     data |-> b.data, color |-> b.color, record |-> b.record]

\* Initial piece lists (Chess.chessboard set from a list, or a new game).
KnightBoard ==
    <<Piece(WHITE, KNIGHT, <<<<2, 1, One>>>>), Piece(WHITE, KING, <<<<5, 1, One>>>>),
      Piece(BLACK, KING, <<<<5, 8, One>>>>)>>
PromotionBoard ==
    <<Piece(WHITE, PAWN, <<<<1, 7, One>>>>), Piece(WHITE, KING, <<<<5, 1, One>>>>),
      Piece(BLACK, KING, <<<<5, 8, One>>>>), Piece(BLACK, PAWN, <<<<8, 2, One>>>>)>>
CaptureBoard ==
    <<Piece(WHITE, KNIGHT, <<<<2, 1, One>>>>),
      Piece(BLACK, PAWN, <<<<1, 3, Half>>, <<3, 3, Half>>>>),
      Piece(WHITE, KING, <<<<5, 1, One>>>>), Piece(BLACK, KING, <<<<5, 8, One>>>>)>>
JumpBoard ==
    <<Piece(WHITE, PAWN, <<<<1, 2, One>>>>), Piece(WHITE, KNIGHT, <<<<1, 3, One>>>>),
      Piece(BLACK, PAWN, <<<<2, 5, One>>>>),
      Piece(WHITE, KING, <<<<5, 1, One>>>>), Piece(BLACK, KING, <<<<5, 8, One>>>>)>>
KingHuntBoard ==
    <<Piece(WHITE, PAWN, <<<<4, 7, One>>>>), Piece(BLACK, PAWN, <<<<4, 2, One>>>>),
      Piece(WHITE, KING, <<<<5, 1, One>>>>), Piece(BLACK, KING, <<<<5, 8, One>>>>)>>

RecaptureBoard ==
    <<Piece(WHITE, KNIGHT, <<<<2, 1, One>>>>), Piece(WHITE, PAWN, <<<<2, 2, One>>>>),
      Piece(BLACK, PAWN, <<<<1, 3, Half>>, <<3, 3, Half>>>>),
      Piece(WHITE, KING, <<<<5, 1, One>>>>), Piece(BLACK, KING, <<<<5, 8, One>>>>),
      Piece(WHITE, PAWN, <<<<1, 2, One>>>>), Piece(BLACK, ROOK, <<<<3, 8, One>>>>)>>

TwoKnightsBoard ==
    <<Piece(WHITE, KNIGHT, <<<<2, 1, One>>>>),
      Piece(WHITE, KNIGHT, <<<<1, 3, Half>>, <<3, 3, Half>>>>),
      Piece(WHITE, KING, <<<<5, 1, One>>>>), Piece(BLACK, KING, <<<<5, 8, One>>>>)>>

CastleBoard ==
    <<Piece(BLACK, KNIGHT, <<<<6, 1, Half>>, <<8, 3, Half>>>>),
      Piece(BLACK, ROOK, <<<<6, 8, One>>>>), Piece(WHITE, ROOK, <<<<8, 1, One>>>>),
      Piece(WHITE, KING, <<<<5, 1, One>>>>), Piece(BLACK, KING, <<<<5, 8, One>>>>),
      Piece(WHITE, ROOK, <<<<1, 1, Half>>, <<4, 1, Half>>>>)>>

PlayBoards ==
    {standard, KnightBoard, PromotionBoard, CaptureBoard, JumpBoard, KingHuntBoard,
     RecaptureBoard, TwoKnightsBoard, CastleBoard}
HumanBoards == {KnightBoard, JumpBoard}

\* Squares a human action may name: occupied, empty and off the board.
HumanSquares == {<<2, 1>>, <<5, 1>>, <<1, 3>>, <<9, 1>>}
HumanActions ==
    LET one == {<<a>> : a \in HumanSquares}
        two == {<<a, b>> : a \in HumanSquares, b \in HumanSquares}
    IN  (one \X one) \cup (one \X two) \cup (two \X one)

NoOp == [op |-> "init", source |-> <<>>, target |-> <<>>, legal |-> TRUE,
         fired |-> "", pre |-> None]

InitOn(boards) ==
    /\ \E pieces \in boards : chessboard = ChessBoard(pieces)
    /\ stack = <<>>
    /\ twin = copy(chessboard)
    /\ plies = 0
    /\ last = NoOp
    /\ trail = <<>>
    /\ det = TRUE
    /\ database = <<>>
    /\ game = Game(standard)

IsLegal(b, a) == a \in Range(actions(b))

\* ------------------------------------------------------------------ play
\* One action of actions() applied with move_piece, any measurement outcome.
Play ==
    /\ plies < MaxMoves
    /\ \E a \in Range(actions(chessboard)) :
        \E o \in move_piece(chessboard, a[1], a[2]) :
            /\ chessboard' = o.board
            /\ plies' = plies + 1
            /\ last' = [op |-> IF o.err THEN "fail" ELSE "run", source |-> a[1],
                        target |-> a[2], legal |-> TRUE, fired |-> o.fired,
                        pre |-> chessboard]
    /\ UNCHANGED <<stack, twin, trail, det, database, game>>

InitPlay == InitOn(PlayBoards)
SpecPlay == InitPlay /\ [][Play]_vars

\* ------------------------------------------------------------------ slider play
\* Play on a board where rook, bishop and queen have placed and superposed
\* pieces of both colours on their rays.
RayBoard ==
    <<Piece(WHITE, ROOK, <<<<1, 1, One>>>>), Piece(WHITE, BISHOP, <<<<3, 3, One>>>>),
      Piece(WHITE, QUEEN, <<<<8, 1, One>>>>), Piece(WHITE, KING, <<<<5, 1, One>>>>),
      Piece(BLACK, ROOK, <<<<1, 8, One>>>>),
      Piece(BLACK, KNIGHT, <<<<1, 5, Half>>, <<1, 7, Half>>>>),
      Piece(BLACK, PAWN, <<<<6, 6, One>>>>), Piece(BLACK, KING, <<<<5, 8, One>>>>)>>

InitRay == InitOn({RayBoard})
SpecRay == InitRay /\ [][Play]_vars

\* ------------------------------------------------------------------ guided play
\* Play from the standard position in which both sides only name squares of one
\* corner each: White its king side, Black the knight on b8.
LineSquares ==
    {<<5, 1>>, <<6, 1>>, <<7, 1>>, <<8, 1>>, <<7, 2>>, <<8, 2>>,
     <<6, 3>>, <<7, 3>>, <<8, 3>>, <<8, 4>>, <<2, 8>>, <<1, 6>>}

InLine(a) == Range(a[1]) \cup Range(a[2]) \subseteq LineSquares

LinePlay ==
    /\ plies < MaxLine
    /\ \E a \in {x \in Range(actions(chessboard)) : InLine(x)} :
        \E o \in move_piece(chessboard, a[1], a[2]) :
            /\ chessboard' = o.board
            /\ plies' = plies + 1
    /\ UNCHANGED <<stack, twin, last, trail, det, database, game>>

InitLine == InitOn({standard})
SpecLine == InitLine /\ [][LinePlay]_vars


\* ------------------------------------------------------------------ twin play
\* The same generated action applied to the live board and to the copy made at
\* the start, each with its own measurement outcomes.
TwinPlay ==
    /\ plies < MaxMoves
    /\ \E a \in Range(actions(chessboard)) :
        \E o \in move_piece(chessboard, a[1], a[2]) :
            \E t \in move_piece(twin, a[1], a[2]) :
                /\ chessboard' = o.board
                /\ twin' = t.board
                /\ plies' = plies + 1
                /\ det' = (det /\ Cardinality(move_piece(chessboard, a[1], a[2])) = 1)
                /\ last' = [op |-> IF o.err THEN "fail" ELSE "run", source |-> a[1],
                            target |-> a[2], legal |-> TRUE, fired |-> o.fired,
                            pre |-> chessboard]
    /\ UNCHANGED <<stack, trail, database, game>>

InitTwin == InitOn(PlayBoards \ {standard})
SpecTwin == InitTwin /\ [][TwinPlay]_vars

\* ------------------------------------------------------------------ Evaluate
\* Scores are sums of value * probability; they are kept in units of 1/One
\* (RelativeStrength) and of 1/(2 * One) (ValueTable, whose tables hold halves).
RECURSIVE Sum(_)
Sum(f) ==
    IF DOMAIN f = {} THEN 0
    ELSE LET x == CHOOSE x \in DOMAIN f : TRUE
         IN  f[x] + Sum([y \in DOMAIN f \ {x} |-> f[y]])

\* RelativeStrength.<name>_white_value; the black value is its negation.
white_value(name) ==
    CASE name = PAWN -> 10 [] name = KNIGHT -> 30 [] name = BISHOP -> 30
      [] name = ROOK -> 50 [] name = QUEEN -> 90 [] name = KING -> 900

RelativeStrengthValue(color, name) ==
    IF color = WHITE THEN white_value(name) ELSE -white_value(name)

\* RelativeStrength.evaluate
RelativeStrength(data) ==
    Sum([sq \in DOMAIN data |->
            RelativeStrengthValue(data[sq][1], data[sq][2]) * data[sq][3]])

\* The tables of ValueTable, every entry doubled.
pawn_white_value_correct ==
    <<<<0, 0, 0, 0, 0, 0, 0, 0>>,
      <<10, 10, 10, 10, 10, 10, 10, 10>>,
      <<2, 2, 4, 6, 6, 4, 2, 2>>,
      <<1, 1, 2, 5, 5, 2, 1, 1>>,
      <<0, 0, 0, 4, 4, 0, 0, 0>>,
      <<1, -1, -2, 0, 0, -2, -1, 1>>,
      <<1, 2, 2, -4, -4, 2, 2, 1>>,
      <<0, 0, 0, 0, 0, 0, 0, 0>>>>

knight_white_value_correct ==
    <<<<-10, -8, -6, -6, -6, -6, -8, -10>>,
      <<-8, -4, 0, 0, 0, 0, -4, -8>>,
      <<-6, 0, 2, 3, 3, 2, 0, -6>>,
      <<-6, 1, 3, 4, 4, 3, 1, -6>>,
      <<-6, 0, 3, 4, 4, 3, 0, -6>>,
      <<-6, 1, 2, 3, 3, 2, 1, -6>>,
      <<-8, -4, 0, 1, 1, 0, -4, -8>>,
      <<-10, -8, -6, -6, -6, -6, -8, -10>>>>

bishop_white_value_correct ==
    <<<<-4, -2, -2, -2, -2, -2, -2, -4>>,
      <<-2, 0, 0, 0, 0, 0, 0, -2>>,
      <<-2, 0, 1, 2, 2, 1, 0, -2>>,
      <<-2, 1, 1, 2, 2, 1, 1, -2>>,
      <<-2, 0, 2, 2, 2, 2, 0, -2>>,
      <<-2, 2, 2, 2, 2, 2, 2, -2>>,
      <<-2, 1, 0, 0, 0, 0, 1, -2>>,
      <<-4, -2, -2, -2, -2, -2, -2, -4>>>>

rook_white_value_correct ==
    <<<<0, 0, 0, 0, 0, 0, 0, 0>>,
      <<1, 2, 2, 2, 2, 2, 2, 1>>,
      <<-1, 0, 0, 0, 0, 0, 0, -1>>,
      <<-1, 0, 0, 0, 0, 0, 0, -1>>,
      <<-1, 0, 0, 0, 0, 0, 0, -1>>,
      <<-1, 0, 0, 0, 0, 0, 0, -1>>,
      <<-1, 0, 0, 0, 0, 0, 0, -1>>,
      <<0, 0, 0, 1, 1, 0, 0, 0>>>>

queen_white_value_correct ==
    <<<<-4, -2, -2, -1, -1, -2, -2, -4>>,
      <<-2, 0, 0, 0, 0, 0, 0, -2>>,
      <<-2, 0, 1, 1, 1, 1, 0, -2>>,
      <<-1, 0, 1, 1, 1, 1, 0, -1>>,
      <<0, 0, 1, 1, 1, 1, 0, -1>>,
      <<-2, 1, 1, 1, 1, 1, 0, -2>>,
      <<-2, 0, 1, 0, 0, 0, 0, -2>>,
      <<-4, -2, -2, -1, -1, -2, -2, -4>>>>

king_white_value_correct ==
    <<<<-6, -8, -8, -10, -10, -8, -8, -6>>,
      <<-6, -8, -8, -10, -10, -8, -8, -6>>,
      <<-6, -8, -8, -10, -10, -8, -8, -6>>,
      <<-6, -8, -8, -10, -10, -8, -8, -6>>,
      <<-4, -6, -6, -8, -8, -6, -6, -4>>,
      <<-2, -4, -4, -4, -4, -4, -4, -2>>,
      <<4, 4, 0, 0, 0, 0, 4, 4>>,
      <<4, 6, 2, 0, 0, 2, 6, 4>>>>

\* list[::-1]
Reversed(table) == [r \in 1..Len(table) |-> table[Len(table) + 1 - r]]

\* ValueTable.<name>_<color>_value_correct
value_correct(color, name) ==
    CASE name = PAWN ->
            IF color = WHITE THEN pawn_white_value_correct
            ELSE Reversed(pawn_white_value_correct)
      [] name = KNIGHT -> knight_white_value_correct
      [] name = BISHOP ->
            IF color = WHITE THEN bishop_white_value_correct
            ELSE Reversed(bishop_white_value_correct)
      [] name = ROOK ->
            IF color = WHITE THEN rook_white_value_correct
            ELSE Reversed(rook_white_value_correct)
      [] name = QUEEN -> queen_white_value_correct
      [] name = KING ->
            IF color = WHITE THEN king_white_value_correct
            ELSE Reversed(king_white_value_correct)

\* ValueTable.evaluate: table[row][col] with row = k[1] - 1 and col = k[0] - 1.
ValueTable(data) ==
    Sum([sq \in DOMAIN data |->
            LET value == 2 * RelativeStrengthValue(data[sq][1], data[sq][2])
                bonus == value_correct(data[sq][1], data[sq][2])[sq[2]][sq[1]]
            IN  IF data[sq][1] = WHITE THEN (value + bonus) * data[sq][3]
                ELSE (value - bonus) * data[sq][3]])

\* ------------------------------------------------------------------ BeamSearchAgent
\* The agent configured with evaluate = RelativeStrength and with deepth and
\* size at the low end of their ranges in the settings.
deepth == 2
size == 2

\* action_sequence after one round of simulation from board b: one item per
\* action, [path (the actions of the line), val, board], for every outcome the
\* moves on the copies can have.  An item is broken when its move raised, or
\* fired no rule and left a square map evaluate cannot read.
\* The sequences that take one element of each of sets[lo..hi], in order.
RECURSIVE Choices(_, _, _)
Choices(sets, lo, hi) ==
    IF lo > hi THEN {<<>>}
    ELSE IF lo = hi THEN {<<x>> : x \in sets[lo]}
    ELSE LET mid == (lo + hi) \div 2
         IN  {x \o y : x \in Choices(sets, lo, mid), y \in Choices(sets, mid + 1, hi)}

Branches(path, b, acts) ==
    LET items == [i \in 1..Len(acts) |->
                    {[path |-> Append(path, acts[i]),
                      val |-> RelativeStrength(o.board.data),
                      board |-> o.board,
                      broken |-> o.err \/ o.fired = ""] :
                        o \in move_piece(copy(b), acts[i][1], acts[i][2])}]
    IN  Choices(items, 1, Len(acts))

\* list.sort(key=lambda x: x[-2]): ascending by value, stable.
SortByVal(items) ==
    LET before(i) == {j \in 1..Len(items) :
                        \/ items[j].val < items[i].val
                        \/ items[j].val = items[i].val /\ j < i}
    IN  [k \in 1..Len(items) |->
            items[CHOOSE i \in 1..Len(items) : Cardinality(before(i)) = k - 1]]

\* items[-size:] for White, items[:size] for Black.
Keep(color, items) ==
    IF Len(items) <= size THEN items
    ELSE IF color = WHITE THEN SubSeq(items, Len(items) - size + 1, Len(items))
    ELSE SubSeq(items, 1, size)

\* One pass of the depth loop: every item is replaced by the best lines that
\* extend it; an item whose board has no action is dropped.
RECURSIVE Grow(_, _)
Grow(color, items) ==
    IF items = <<>> THEN {<<>>}
    ELSE {Keep(color, SortByVal(branch)) \o rest :
            branch \in Branches(Head(items).path, Head(items).board,
                                actions(Head(items).board)),
            rest \in Grow(color, Tail(items))}

RECURSIVE Deepen(_, _, _)
Deepen(n, color, items) ==
    IF n = 0 THEN {items}
    ELSE UNION {Deepen(n - 1, Other(color), grown) : grown \in Grow(Other(color), items)}

MaxOf(values) == CHOOSE v \in Range(values) : \A w \in Range(values) : w <= v
MinOf(values) == CHOOSE v \in Range(values) : \A w \in Range(values) : v <= w

\* BeamSearchAgent.minimax over todict(action_sequence): one value per distinct
\* k-th action of the lines, in order of first occurrence.
RECURSIVE minimax(_, _, _)
minimax(color, items, k) ==
    LET keys == Keys([i \in 1..Len(items) |-> items[i].path[k]])
        group(a) == SelectSeq(items, LAMBDA item : item.path[k] = a)
    IN  [j \in 1..Len(keys) |->
            LET lines == group(keys[j])
            IN  IF Len(lines[1].path) = k THEN lines[Len(lines)].val
                ELSE IF color = WHITE THEN MaxOf(minimax(BLACK, lines, k + 1))
                ELSE MinOf(minimax(WHITE, lines, k + 1))]

\* BeamSearchAgent.run up to its last statement: the actions it may choose, or
\* None when it raises before choosing (a broken simulation, or max()/min() of
\* an empty list when no line is left).
BeamSearch(b) ==
    LET Broken(items) == \E i \in 1..Len(items) : items[i].broken
        first == {Keep(b.color, SortByVal(branch)) :
                    branch \in Branches(<<>>, b, actions(b))}
        final == UNION {Deepen(deepth - 1, b.color, items) : items \in first}
        choice(items) ==
            LET values == minimax(Other(b.color), items, 1)
                extremum == IF b.color = WHITE THEN MaxOf(values) ELSE MinOf(values)
                keys == Keys([i \in 1..Len(items) |-> items[i].path[1]])
            IN  keys[CHOOSE i \in 1..Len(values) :
                        /\ values[i] = extremum
                        /\ \A j \in 1..(i - 1) : values[j] # extremum]
    IN  {IF items = <<>> \/ Broken(items) THEN None ELSE choice(items) : items \in final}

\* ------------------------------------------------------------------ MinimaxAgent
\* float("inf"), above every score an evaluator can give.
Infinity == 2 ^ 30

\* The depth MinimaxAgent is configured with (the default of the settings).
minimax_deepth == 1

\* MinimaxAgent.minimax: the value lists it can return, one value per action of
\* the board, for every outcome the moves on the copies can have; None when a
\* simulated move raises.
RECURSIVE MinimaxAgent_minimax(_, _)
MinimaxAgent_minimax(d, b) ==
    LET acts == actions(b)
        below(o) ==
            IF d > 0
            THEN {IF vs = None THEN None
                  ELSE IF b.color = WHITE THEN <<MinOf(vs)>> ELSE <<MaxOf(vs)>> :
                        vs \in MinimaxAgent_minimax(d - 1, o.board)}
            ELSE {<<RelativeStrength(o.board.data)>>}
        value(i) ==
            UNION {IF o.err \/ o.fired = "" THEN {None} ELSE below(o) :
                        o \in move_piece(copy(b), acts[i][1], acts[i][2])}
        lists == Choices([i \in 1..Len(acts) |-> value(i)], 1, Len(acts))
    IN  IF acts = <<>>
        THEN {<<IF b.color = WHITE THEN -Infinity ELSE Infinity>>}
        ELSE {IF \E i \in 1..Len(acts) : c[i] = None THEN None
              ELSE [i \in 1..Len(acts) |-> c[i][1]] : c \in lists}

\* MinimaxAgent.run up to its last statement: the actions it may choose, or
\* None when it raises (a simulated move raised, or the board has no action
\* and actions[-1] is read from an empty list).
MinimaxAgent_run(b) ==
    LET acts == actions(b)
        choice(values) ==
            LET extremum == IF b.color = WHITE THEN MaxOf(values) ELSE MinOf(values)
            IN  IF extremum # Infinity /\ extremum # -Infinity
                THEN {acts[i] : i \in {j \in 1..Len(acts) : values[j] = extremum}}
                ELSE Range(acts)
    IN  UNION {IF values = None \/ acts = <<>> THEN {None} ELSE choice(values) :
                    values \in MinimaxAgent_minimax(minimax_deepth, b)}

\* ------------------------------------------------------------------ AlphaBetaAgent
\* AlphaBetaAgent.max_value (maximize) and AlphaBetaAgent.min_value (otherwise),
\* which differ only in the direction of their comparisons and in which of
\* alpha and beta the loop tightens: the results [val, index] they can return
\* (index counted from 1), for every outcome the moves on the copies can
\* have; err when a simulated move raises.  The for loop is the fold of step
\* over the actions in their order, on the loop's variables val, index and
\* bound (alpha in max_value, beta in min_value); done after the break.  The
\* first half of the actions is folded before the second half starts.
RECURSIVE alphabeta(_, _, _, _, _)
alphabeta(maximize, b, d, alpha, beta) ==
    LET step(acts, i, st) ==
            IF st.done THEN {st}
            ELSE UNION {
                    IF o.err \/ o.fired = "" THEN {[st EXCEPT !.err = TRUE, !.done = TRUE]}
                    ELSE {LET val == IF maximize = (r.val > st.val) THEN r.val ELSE st.val
                          IN  IF r.err THEN [st EXCEPT !.err = TRUE, !.done = TRUE]
                              ELSE IF (IF maximize THEN val >= beta ELSE val <= alpha)
                              THEN [st EXCEPT !.val = val, !.done = TRUE]
                              ELSE IF (IF maximize THEN val > st.bound ELSE val < st.bound)
                              THEN [st EXCEPT !.val = val, !.bound = val, !.index = i]
                              ELSE [st EXCEPT !.val = val] :
                                r \in alphabeta(~maximize, o.board, d - 1,
                                                IF maximize THEN st.bound ELSE alpha,
                                                IF maximize THEN beta ELSE st.bound)} :
                        o \in move_piece(copy(b), acts[i][1], acts[i][2])}
        RECURSIVE loop(_, _, _, _)
        loop(acts, lo, hi, sts) ==
            IF lo > hi THEN sts
            ELSE IF lo = hi THEN UNION {step(acts, lo, st) : st \in sts}
            ELSE UNION {loop(acts, (lo + hi) \div 2 + 1, hi, {st}) :
                            st \in loop(acts, lo, (lo + hi) \div 2, sts)}
    IN  IF d = 0 THEN {[val |-> RelativeStrength(b.data), index |-> 1, err |-> FALSE]}
        ELSE UNION {{[val |-> st.val, index |-> st.index, err |-> st.err] :
                        st \in loop(acts, 1, Len(acts),
                                    {[val |-> IF maximize THEN -Infinity ELSE Infinity,
                                      index |-> 1,
                                      bound |-> IF maximize THEN alpha ELSE beta,
                                      done |-> FALSE, err |-> FALSE]})} :
                    acts \in {actions(b)}}

max_value(b, d, alpha, beta) == alphabeta(TRUE, b, d, alpha, beta)

min_value(b, d, alpha, beta) == alphabeta(FALSE, b, d, alpha, beta)

\* AlphaBetaAgent.run up to its last statement: the actions it may choose, or
\* None when it raises (a simulated move raised, or actions[index] is read from
\* an empty list).
AlphaBetaAgent_run(b) ==
    LET acts == actions(b)
        found == IF b.color = WHITE THEN max_value(b, deepth, -Infinity, Infinity)
                 ELSE min_value(b, deepth, -Infinity, Infinity)
    IN  {IF r.err \/ acts = <<>> THEN None ELSE acts[r.index] : r \in found}

\* ------------------------------------------------------------------ Chess
\* A snapshot that records the wrong side to move.
push_late(st, b) == Append(st, [b EXCEPT !.color = Other(b.color)])

\* Chess.run, first statement: the snapshot pushed before the agent acts.
push(st, b) == Append(st, copy(b))

\* Chess.run with a search agent: it applies one action of actions(); with no
\* action to choose from the agent raises after the snapshot was pushed.
RunAgent ==
    /\ plies < MaxMoves
    /\ Len(stack) < MaxStack
    /\ stack' = push(stack, chessboard)
    /\ trail' = Append(trail, chessboard)
    /\ IF actions(chessboard) = <<>>
       THEN /\ chessboard' = chessboard
            /\ plies' = plies
            /\ last' = [op |-> "fail", source |-> <<>>, target |-> <<>>, legal |-> TRUE,
                        fired |-> "", pre |-> chessboard]
       ELSE \E a \in Range(actions(chessboard)) :
            \E o \in move_piece(chessboard, a[1], a[2]) :
                /\ chessboard' = o.board
                /\ plies' = IF o.err THEN plies ELSE plies + 1
                /\ last' = [op |-> IF o.err THEN "fail" ELSE "run", source |-> a[1],
                            target |-> a[2], legal |-> TRUE, fired |-> o.fired,
                            pre |-> chessboard]
    /\ UNCHANGED <<twin, det, database, game>>

\* Chess.run with HumanAgent: the given (sources, targets) goes to move_piece.
RunHuman ==
    /\ plies < MaxMoves
    /\ Len(stack) < MaxStack
    /\ stack' = push(stack, chessboard)
    /\ trail' = Append(trail, chessboard)
    /\ \E a \in HumanActions :
        \E o \in move_piece(chessboard, a[1], a[2]) :
            /\ chessboard' = o.board
            /\ plies' = IF o.err THEN plies ELSE plies + 1
            /\ last' = [op |-> IF o.err THEN "fail" ELSE "run", source |-> a[1],
                        target |-> a[2], legal |-> IsLegal(chessboard, a),
                        fired |-> o.fired, pre |-> chessboard]
    /\ UNCHANGED <<twin, det, database, game>>

\* Chess.run with BeamSearchAgent: the search runs on copies and the chosen
\* action is applied to the live board at the end; when the search raises, the
\* snapshot is on the stack and the live board is as it was.
RunBeam ==
    /\ plies < MaxMoves
    /\ Len(stack) < MaxStack
    /\ stack' = push(stack, chessboard)
    /\ trail' = Append(trail, chessboard)
    /\ \E a \in BeamSearch(chessboard) :
        IF a = None
        THEN /\ chessboard' = chessboard
             /\ plies' = plies
             /\ last' = [op |-> "fail", source |-> <<>>, target |-> <<>>, legal |-> TRUE,
                         fired |-> "", pre |-> chessboard]
        ELSE \E o \in move_piece(chessboard, a[1], a[2]) :
             /\ chessboard' = o.board
             /\ plies' = plies + 1
             /\ last' = [op |-> IF o.err THEN "fail" ELSE "run", source |-> a[1],
                         target |-> a[2], legal |-> IsLegal(chessboard, a),
                         fired |-> o.fired, pre |-> chessboard]
    /\ UNCHANGED <<twin, det, database, game>>

\* Chess.run with MinimaxAgent: the search runs on copies and the chosen action
\* is applied to the live board at the end.
RunMinimax ==
    /\ plies < MaxMoves
    /\ Len(stack) < MaxStack
    /\ stack' = push(stack, chessboard)
    /\ trail' = Append(trail, chessboard)
    /\ \E a \in MinimaxAgent_run(chessboard) :
        IF a = None
        THEN /\ chessboard' = chessboard
             /\ plies' = plies
             /\ last' = [op |-> "fail", source |-> <<>>, target |-> <<>>, legal |-> TRUE,
                         fired |-> "", pre |-> chessboard]
        ELSE \E o \in move_piece(chessboard, a[1], a[2]) :
             /\ chessboard' = o.board
             /\ plies' = plies + 1
             /\ last' = [op |-> IF o.err THEN "fail" ELSE "run", source |-> a[1],
                         target |-> a[2], legal |-> IsLegal(chessboard, a),
                         fired |-> o.fired, pre |-> chessboard]
    /\ UNCHANGED <<twin, det, database, game>>

\* Chess.run with AlphaBetaAgent.
RunAlphaBeta ==
    /\ plies < MaxMoves
    /\ Len(stack) < MaxStack
    /\ stack' = push(stack, chessboard)
    /\ trail' = Append(trail, chessboard)
    /\ \E a \in AlphaBetaAgent_run(chessboard) :
        IF a = None
        THEN /\ chessboard' = chessboard
             /\ plies' = plies
             /\ last' = [op |-> "fail", source |-> <<>>, target |-> <<>>, legal |-> TRUE,
                         fired |-> "", pre |-> chessboard]
        ELSE \E o \in move_piece(chessboard, a[1], a[2]) :
             /\ chessboard' = o.board
             /\ plies' = plies + 1
             /\ last' = [op |-> IF o.err THEN "fail" ELSE "run", source |-> a[1],
                         target |-> a[2], legal |-> IsLegal(chessboard, a),
                         fired |-> o.fired, pre |-> chessboard]
    /\ UNCHANGED <<twin, det, database, game>>

\* Two white pawns that can both capture the lone black king.
BeamBoard ==
    <<Piece(WHITE, PAWN, <<<<4, 7, One>>>>), Piece(WHITE, PAWN, <<<<6, 7, One>>>>),
      Piece(WHITE, KING, <<<<5, 1, One>>>>), Piece(BLACK, KING, <<<<5, 8, One>>>>)>>

InitSearch == InitOn({BeamBoard, KingHuntBoard})
NextSearch == RunAgent \/ RunBeam
SpecSearch == InitSearch /\ [][NextSearch]_vars

\* The same boards played by the agents that search the game tree.
NextGameTree == RunAgent \/ RunMinimax \/ RunAlphaBeta
SpecGameTree == InitSearch /\ [][NextGameTree]_vars

\* Chess.undo
Undo ==
    /\ stack # <<>>
    /\ chessboard' = stack[Len(stack)]
    /\ stack' = SubSeq(stack, 1, Len(stack) - 1)
    /\ trail' = SubSeq(trail, 1, Len(trail) - 1)
    /\ last' = [op |-> "undo", source |-> <<>>, target |-> <<>>, legal |-> TRUE,
                fired |-> "", pre |-> trail[Len(trail)]]
    /\ UNCHANGED <<twin, plies, det, database, game>>

Init == InitOn(HumanBoards)
Next == RunAgent \/ RunHuman
Spec == Init /\ [][Next]_vars

NextUndo == RunAgent \/ RunHuman \/ Undo
SpecUndo == Init /\ [][NextUndo]_vars

\* ------------------------------------------------------------------ database
\* Color.name.lower() and Name.name.lower(), as ChessBoard.save writes them.
lower(value) ==
    CASE value = WHITE -> "white" [] value = BLACK -> "black"
      [] value = KING -> "king" [] value = QUEEN -> "queen" [] value = ROOK -> "rook"
      [] value = BISHOP -> "bishop" [] value = KNIGHT -> "knight" [] value = PAWN -> "pawn"

\* eval(f"Color.{text.upper()}") and eval(f"Name.{text.upper()}") of Game.load.
upper(text) ==
    CASE text = "white" -> WHITE [] text = "black" -> BLACK
      [] text = "king" -> KING [] text = "queen" -> QUEEN [] text = "rook" -> ROOK
      [] text = "bishop" -> BISHOP [] text = "knight" -> KNIGHT [] text = "pawn" -> PAWN

\* An archive that leaves out the pieces without a placement.
save_alive(b) ==
    LET alive == SelectSeq(b.pieces, LAMBDA piece : piece.places # <<>>)
    IN  [turn |-> b.color # WHITE,
         piece |-> [i \in 1..Len(alive) |->
                    [color |-> lower(alive[i].color), name |-> lower(alive[i].name),
                     place |-> alive[i].places]]]

\* ChessBoard.save with Database.save: the endgame row (turn: False for White)
\* with one piece row per piece, dead ones too, and its place rows, in order.
save(b) ==
    [turn |-> b.color # WHITE,
     piece |-> [i \in 1..Len(b.pieces) |->
                [color |-> lower(b.pieces[i].color), name |-> lower(b.pieces[i].name),
                 place |-> b.pieces[i].places]]]

\* Chess.chessboard set from an id: Database.load, Game.load, ChessBoard(Game),
\* then the turn read back from the endgame row.
load(db, id) ==
    LET pieces == [i \in 1..Len(db[id].piece) |->
                    Piece(upper(db[id].piece[i].color), upper(db[id].piece[i].name),
                          db[id].piece[i].place)]
    IN  [pieces |-> pieces, data |-> place_piece(pieces),
         color |-> IF ~db[id].turn THEN WHITE ELSE BLACK, record |-> ""]

\* Chess.save
Save ==
    /\ Len(database) < MaxSaves
    /\ database' = Append(database, save(chessboard))
    /\ last' = [op |-> "save", source |-> <<Len(database) + 1>>, target |-> <<>>,
                legal |-> TRUE, fired |-> "", pre |-> chessboard]
    /\ UNCHANGED <<chessboard, stack, twin, plies, trail, det, game>>

\* Chess.chessboard = id
Load ==
    /\ \E id \in 1..Len(database) :
        /\ chessboard' = load(database, id)
        /\ last' = [op |-> "load", source |-> <<id>>, target |-> <<>>,
                    legal |-> TRUE, fired |-> "", pre |-> chessboard]
    /\ UNCHANGED <<stack, twin, plies, trail, det, database, game>>

InitSave == InitOn({PromotionBoard, CaptureBoard, KingHuntBoard})
NextSave == Play \/ Save \/ Load
SpecSave == InitSave /\ [][NextSave]_vars

\* ------------------------------------------------------------------ queen side
\* Play from the standard position in which both sides only name squares of the
\* a, b and c files between the pawn rows, and the knight's square b1.
QueenSideSquares ==
    {<<2, 1>>, <<1, 2>>, <<1, 3>>, <<1, 4>>, <<3, 3>>, <<2, 7>>, <<2, 6>>, <<2, 5>>,
     <<1, 7>>, <<1, 6>>, <<1, 5>>}

QueenSidePlay ==
    /\ plies < MaxQueenSide
    /\ \E a \in {x \in Range(actions(chessboard)) :
                    Range(x[1]) \cup Range(x[2]) \subseteq QueenSideSquares} :
        \E o \in move_piece(chessboard, a[1], a[2]) :
            /\ chessboard' = o.board
            /\ plies' = plies + 1
            /\ last' = [op |-> IF o.err THEN "fail" ELSE "run", source |-> a[1],
                        target |-> a[2], legal |-> TRUE, fired |-> o.fired,
                        pre |-> chessboard]
    /\ UNCHANGED <<stack, twin, trail, det, database, game>>

SpecQueenSide == InitLine /\ [][QueenSidePlay]_vars

\* ------------------------------------------------------------------ Chess.dead
\* The tomb list of one colour before any piece is taken off it.
army ==
    <<"pawn", "pawn", "pawn", "pawn", "pawn", "pawn", "pawn", "pawn",
      "rook", "knight", "bishop", "queen", "king", "bishop", "knight", "rook">>

\* list.remove(x): without the first occurrence of x.
RemoveFirst(list, x) ==
    LET i == CHOOSE i \in 1..Len(list) :
                list[i] = x /\ \A j \in 1..(i - 1) : list[j] # x
    IN  SubSeq(list, 1, i - 1) \o SubSeq(list, i + 1, Len(list))

\* The loop of Chess.dead from piece i on: every piece of `counted` takes off the
\* tomb of its colour a slot of its kind, or a pawn slot when none is left; None
\* when the pawn slots are used up too (ValueError).
RECURSIVE Tomb(_, _, _, _)
Tomb(tomb, pieces, counted, i) ==
    IF i > Len(pieces) THEN tomb
    ELSE IF i \notin counted THEN Tomb(tomb, pieces, counted, i + 1)
    ELSE LET key == lower(pieces[i].color)
             slot == IF lower(pieces[i].name) \in Range(tomb[key])
                     THEN lower(pieces[i].name) ELSE "pawn"
         IN  IF slot \notin Range(tomb[key]) THEN None
             ELSE Tomb([tomb EXCEPT ![key] = RemoveFirst(@, slot)], pieces, counted, i + 1)

\* Chess.dead: a piece is skipped unless one of its placements has a
\* probability other than 0.
dead(b) ==
    Tomb([white |-> army, black |-> army], b.pieces,
         {i \in 1..Len(b.pieces) :
            \E j \in 1..Len(b.pieces[i].places) : b.pieces[i].places[j][3] # 0}, 1)

\* ------------------------------------------------------------------ new game
\* The rule applied to the action measures a piece: an attack, a promotion, or
\* a meeting of two pieces of different kinds.
Measures(b, source, target) ==
    LET piece == b.pieces[get_piece(b.pieces, source)]
        rule == Fired(b, source, target)
    IN  \/ rule = "Attack"
        \/ rule = "Move" /\ piece.name = PAWN
                /\ target[1][2] = (IF piece.color = WHITE THEN 8 ELSE 1)
        \/ rule = "Meet"
                /\ piece.name # b.pieces[find(target[1], b.pieces)].name

\* A generated action on a live board made by ChessBoard(Game()). Every Piece
\* holds the place list of its entry of game.standard, and an action that
\* measures nothing only appends to and removes from these lists (Piece.add,
\* Piece.remove), so the entries of the list change with the pieces.
StandardPlay ==
    /\ plies < MaxMoves
    /\ \E a \in {x \in Range(actions(chessboard)) : ~Measures(chessboard, x[1], x[2])} :
        \E o \in move_piece(chessboard, a[1], a[2]) :
            /\ chessboard' = o.board
            /\ game' = [i \in 1..Len(game) |->
                            [game[i] EXCEPT !.places = o.board.pieces[i].places]]
            /\ plies' = plies + 1
            /\ last' = [op |-> IF o.err THEN "fail" ELSE "run", source |-> a[1],
                        target |-> a[2], legal |-> TRUE, fired |-> o.fired,
                        pre |-> chessboard]
    /\ UNCHANGED <<stack, twin, trail, det, database>>

\* Chess.chessboard set from an empty list: ChessBoard(Game()).
NewGame ==
    /\ chessboard' = ChessBoard(init_piece(game))
    /\ last' = [op |-> "new", source |-> <<>>, target |-> <<>>, legal |-> TRUE,
                fired |-> "", pre |-> chessboard]
    /\ UNCHANGED <<stack, twin, plies, trail, det, database, game>>

InitNewGame ==
    /\ chessboard = ChessBoard(init_piece(Game(standard)))
    /\ stack = <<>>
    /\ twin = copy(chessboard)
    /\ plies = 0
    /\ last = NoOp
    /\ trail = <<>>
    /\ det = TRUE
    /\ database = <<>>
    /\ game = Game(standard)

NextNewGame == StandardPlay \/ NewGame
SpecNewGame == InitNewGame /\ [][NextNewGame]_vars

\* ------------------------------------------------------------------ claims
Alive(piece) == Len(piece.places) > 0

\* C1: after any sequence of generated actions from a board whose pieces each
\* sum to a probability in (0, 1], every piece is dead (no placement) or its
\* placement probabilities sum to a value in (0, 1].
C1_SumInUnitInterval ==
    \A i \in 1..Len(chessboard.pieces) :
        \/ ~Alive(chessboard.pieces[i])
        \/ /\ SumProb(chessboard.pieces[i].places) > 0
           /\ SumProb(chessboard.pieces[i].places) <= One

\* C2: every placement of every piece has a probability p with 0 < p <= 1, on
\* every board reached from the standard position by generated actions.
C2_PlacementsPositive ==
    \A i \in 1..Len(chessboard.pieces) :
        \A j \in 1..Len(chessboard.pieces[i].places) :
            /\ chessboard.pieces[i].places[j][3] > 0
            /\ chessboard.pieces[i].places[j][3] <= One

\* C3: no square holds placements of two distinct pieces that both have
\* probability 1 there, on every board reached from the standard position.
C3_NoTwoCertainOnOneSquare ==
    \A i, k \in 1..Len(chessboard.pieces) :
        i # k =>
            \A j \in 1..Len(chessboard.pieces[i].places) :
                \A m \in 1..Len(chessboard.pieces[k].places) :
                    ~(/\ Sq(chessboard.pieces[i].places[j]) = Sq(chessboard.pieces[k].places[m])
                      /\ chessboard.pieces[i].places[j][3] = One
                      /\ chessboard.pieces[k].places[m][3] = One)


\* A run, applied or failed, whose action was not generated by actions().
Ran == last.op \in {"run", "fail"}
OffBoard(squares) == \E k \in 1..Len(squares) : overstep(squares[k])

\* C4: every action Chess.run applies is a member of actions() of the pre-move
\* board; an action outside actions() is rejected and changes neither the
\* pieces nor the side to move.
C4_OnlyGeneratedActionsApplied ==
    /\ last.op = "run" => last.legal
    /\ (Ran /\ ~last.legal) =>
            /\ last.op = "fail"
            /\ chessboard.pieces = last.pre.pieces
            /\ chessboard.color = last.pre.color

\* C5: every move_piece call that returns toggles the side to move, whichever
\* rule fired and also when none did; after n applied actions from a board
\* with White to move, White is to move iff n is even.
C5_TurnAlternates ==
    /\ last.op = "run" => chessboard.color # last.pre.color
    /\ last.op = "fail" => chessboard.color = last.pre.color
    /\ (chessboard.color = WHITE) <=> (plies % 2 = 0)

C5_NoRuleFired == last.op = "run" /\ last.fired = "" /\ plies = 2

\* C6: a run whose action names a source square without a piece (or sources
\* not of one piece), or any coordinate outside 1..8, fails and leaves the
\* board unchanged: pieces, side to move and square map.
C6_BadCoordinatesRejected ==
    (/\ Ran
     /\ \/ OffBoard(last.source) \/ OffBoard(last.target)
        \/ get_piece(last.pre.pieces, last.source) = 0) =>
        /\ last.op = "fail"
        /\ chessboard.pieces = last.pre.pieces
        /\ chessboard.color = last.pre.color
        /\ chessboard.data = last.pre.data

\* C7: an undo restores the exact board from which the undone run started;
\* the snapshots are the boards of the runs not yet undone, oldest first, so k
\* runs followed by k undos restore the board before the first of them.
C7_UndoRestores ==
    /\ stack = trail
    /\ last.op = "undo" => chessboard = last.pre

C7_TwoRunsTwoUndos ==
    /\ last.op = "undo" /\ stack = <<>> /\ plies = 2
    /\ chessboard = ChessBoard(KnightBoard)

\* C8: winner() is decided by the kings' placement lists alone: NULL iff a
\* white and a black king both have a placement, WHITE iff only a white king
\* has one, BLACK iff only a black king has one, DRAW iff neither has one.
KingAlive(b, color) ==
    \E i \in 1..Len(b.pieces) :
        b.pieces[i].name = KING /\ b.pieces[i].color = color /\ b.pieces[i].places # <<>>

C8_WinnerFromKings ==
    LET w == KingAlive(chessboard, WHITE)
        k == KingAlive(chessboard, BLACK)
        winner == game_over(chessboard.pieces)
    IN  /\ winner = "NULL" <=> (w /\ k)
        /\ winner = "WHITE" <=> (w /\ ~k)
        /\ winner = "BLACK" <=> (k /\ ~w)
        /\ winner = "DRAW" <=> (~w /\ ~k)

C8_KingCaptured ==
    /\ last.op = "run" /\ last.fired = "Attack"
    /\ game_over(last.pre.pieces) = "NULL"
    /\ game_over(chessboard.pieces) = "WHITE"
    /\ ~KingAlive(chessboard, BLACK)

\* C9 as stated: on the standard starting board with White to move, winner()
\* is NULL and actions() holds exactly 20 actions, none a split or a merge.
Opening == chessboard.pieces = standard /\ chessboard.color = WHITE
Splits(acts) == SelectSeq(acts, LAMBDA a : Len(a[2]) = 2)
Merges(acts) == SelectSeq(acts, LAMBDA a : Len(a[1]) = 2)
MovesOf(acts, name) ==
    SelectSeq(acts, LAMBDA a :
        IsSimple(a) /\ chessboard.pieces[find(a[1][1], chessboard.pieces)].name = name)

C9_TwentyOpeningActions ==
    Opening =>
        /\ game_over(chessboard.pieces) = "NULL"
        /\ Len(actions(chessboard)) = 20
        /\ Splits(actions(chessboard)) = <<>>
        /\ Merges(actions(chessboard)) = <<>>

\* C9 amended: on the standard starting board with White to move, winner() is
\* NULL and actions() holds exactly 22 actions: 16 pawn moves, 4 knight moves
\* and the two knight splits b1 -> c3^a3 and g1 -> h3^f3; none is a merge.
C9_OpeningActions ==
    Opening =>
        /\ game_over(chessboard.pieces) = "NULL"
        /\ Len(actions(chessboard)) = 22
        /\ Len(MovesOf(actions(chessboard), PAWN)) = 16
        /\ Len(MovesOf(actions(chessboard), KNIGHT)) = 4
        /\ Splits(actions(chessboard)) =
            << <<<<<<2, 1>>>>, <<<<3, 3>>, <<1, 3>>>>>>,
               <<<<<<7, 1>>>>, <<<<8, 3>>, <<6, 3>>>>>> >>
        /\ Merges(actions(chessboard)) = <<>>

C9_AtOpening == Opening /\ plies = 0 /\ Len(actions(chessboard)) > 20

Mover == find(last.source[1], last.pre.pieces)
PromotionRank(color) == IF color = WHITE THEN 8 ELSE 1

\* A pawn whose only placement is the source, with probability 1, was moved to an
\* empty square of its promoting rank.
Promoting ==
    /\ last.op \in {"run", "fail"}
    /\ Len(last.source) = 1 /\ Len(last.target) = 1
    /\ Mover # 0
    /\ last.pre.pieces[Mover].name = PAWN
    /\ last.pre.pieces[Mover].places = <<<<last.source[1][1], last.source[1][2], One>>>>
    /\ last.target[1][2] = PromotionRank(last.pre.pieces[Mover].color)
    /\ DataAt(last.pre.data, last.target[1]) = None

\* C11: a pawn whose only placement is the source with probability 1 and that
\* moves to an empty square of its promoting rank succeeds; the piece is then a
\* QUEEN with the single placement (target, 1) and the record is the target
\* coordinate followed by "-Q".
C11_PromotionToQueen ==
    Promoting =>
        /\ last.op = "run"
        /\ chessboard.pieces[Mover].name = QUEEN
        /\ chessboard.pieces[Mover].places = <<<<last.target[1][1], last.target[1][2], One>>>>
        /\ chessboard.record = place2str(last.target[1]) \o "-Q"
        /\ \A k \in 1..Len(chessboard.pieces) :
                k # Mover => chessboard.pieces[k] = last.pre.pieces[k]

C11_BlackPromoted ==
    /\ Promoting /\ last.pre.pieces[Mover].color = BLACK
    /\ chessboard.record = "h1-Q"
    /\ \E k \in 1..Len(chessboard.pieces) :
            chessboard.pieces[k].color = WHITE /\ chessboard.pieces[k].name = QUEEN

\* Scenario S5 was just played: on the board with a certain white knight on b1
\* and a black pawn half on a3 and half on c3, the knight attacked c3.
S5Played ==
    /\ last.op \in {"run", "fail"}
    /\ last.pre = ChessBoard(CaptureBoard)
    /\ last.source = <<<<2, 1>>>> /\ last.target = <<<<3, 3>>>>

\* C12: in scenario S5 the black pawn is measured, so that afterwards it is no
\* longer in superposition; in the outcome where it collapsed to c3 it has no
\* placement left anywhere, the knight's only placement is (c3, 1) and the record
\* is "Nb1xc3".
C12_SuperposedDefenderCaptured ==
    S5Played =>
        /\ last.op = "run"
        /\ chessboard.pieces[2].places \in {<<>>, <<<<1, 3, One>>>>}
        /\ chessboard.pieces[2].places = <<>> =>
                /\ chessboard.pieces[1].places = <<<<3, 3, One>>>>
                /\ chessboard.record = "Nb1xc3"

\* The colour, kind and placements of every piece of a board, in order.
PieceList(b) ==
    [i \in 1..Len(b.pieces) |->
        <<b.pieces[i].color, b.pieces[i].name, b.pieces[i].places>>]

\* C13: loading a board by the id its save returned gives the same piece list
\* (colour, kind and placements of every piece, in order, dead pieces included)
\* and the same side to move; saving a loaded board again persists a piece list
\* and a turn flag identical to the ones it was loaded from.
C13_SaveLoadRoundTrip ==
    /\ last.op = "save" =>
            /\ PieceList(load(database, last.source[1])) = PieceList(chessboard)
            /\ load(database, last.source[1]).color = chessboard.color
    /\ last.op = "load" => save(chessboard) = database[last.source[1]]

C13_LoadedWithDeadPiece ==
    /\ last.op = "load"
    /\ chessboard.color = BLACK
    /\ \E i \in 1..Len(chessboard.pieces) : chessboard.pieces[i].places = <<>>
    /\ chessboard # last.pre

\* The square map with the colour of every piece swapped and every row r
\* mirrored to 9 - r.
Mirrored(data) ==
    [sq \in {<<q[1], 9 - q[2]>> : q \in DOMAIN data} |->
        LET v == data[<<sq[1], 9 - sq[2]>>] IN <<Other(v[1]), v[2], v[3]>>]

OnBoard(data) == \A sq \in DOMAIN data : ~overstep(sq)

\* C16: for RelativeStrength and for ValueTable, swapping the colour of every
\* piece and mirroring every row r to 9 - r negates the score of the square map.
C16_EvaluatorSymmetry ==
    OnBoard(chessboard.data) =>
        /\ RelativeStrength(Mirrored(chessboard.data)) = -RelativeStrength(chessboard.data)
        /\ ValueTable(Mirrored(chessboard.data)) = -ValueTable(chessboard.data)

\* C14: a search agent run on a live board that has at least one action applies
\* exactly one action to it, a member of its actions(); the live board is as it
\* was until that application, so what the run leaves is an outcome of that one
\* move on the pre-run board.
C14_AgentAppliesOneAction ==
    (last.op \in {"run", "fail"} /\ actions(last.pre) # <<>>) =>
        /\ last.op = "run"
        /\ IsLegal(last.pre, <<last.source, last.target>>)
        /\ \E o \in move_piece(last.pre, last.source, last.target) :
                chessboard = o.board

\* The pieces winner() counts alive: those with a non-empty placement list.
Placed(pieces) == {i \in 1..Len(pieces) : pieces[i].places # <<>>}

\* C15: on every board reached from the standard start, each colour's list of
\* captured pieces is the 16-piece army minus one slot per alive piece of that
\* colour (its own kind if left, else a pawn), a piece being alive exactly when
\* its placement list is not empty; so the list has 16 minus the number of
\* alive pieces of the colour.
C15_CapturedPieces ==
    /\ dead(chessboard) =
            Tomb([white |-> army, black |-> army], chessboard.pieces,
                 Placed(chessboard.pieces), 1)
    /\ \A color \in {WHITE, BLACK} :
            Len(dead(chessboard)[lower(color)]) =
                16 - Cardinality({i \in Placed(chessboard.pieces) :
                                    chessboard.pieces[i].color = color})

\* C17: a board created for a new standard game is the standard 32-piece array
\* with White to move, whatever was played on an earlier board, and playing on
\* a live board never changes the standard list.
C17_NewGameIsStandard ==
    /\ game = Game(standard)
    /\ last.op = "new" => chessboard = ChessBoard(standard)

\* C18: when an attack has measured the attacking piece, either the measurement
\* returned one of the squares the piece was placed on and the piece is left
\* on that square alone with probability 1 (on the attacked square when the
\* source square was returned), or it returned no square, the piece's total was
\* below 1 and the piece is left with an empty placement list.
C18_MeasurePostcondition ==
    (last.op = "run" /\ last.fired = "Attack") =>
        LET i == find(last.source[1], last.pre.pieces)
            before == last.pre.pieces[i].places
            after == chessboard.pieces[i].places
        IN  \/ after = <<<<last.target[1][1], last.target[1][2], One>>>>
            \/ \E j \in 1..Len(before) :
                    /\ Sq(before[j]) # last.source[1]
                    /\ after = <<<<before[j][1], before[j][2], One>>>>
            \/ SumProb(before) < One /\ after = <<>>

\* C19: the actions generated for the side to move are those of the move rules
\* of the pieces' current kinds, as on a board whose pieces were created anew
\* with the same kinds and placements: a promoted pawn is given the queen's
\* moves from its square, not a pawn's.
C19_MovesOfCurrentKind ==
    Range(actions(chessboard)) =
        Range(actions([chessboard EXCEPT !.pieces = init_piece(chessboard.pieces)]))

\* The squares of the board along one ray from a square, as step numbers.
Steps(sq, ray) == {k \in 1..Len(ray) : ~overstep(<<sq[1] + ray[k][1], sq[2] + ray[k][2]>>)}
At(sq, ray, k) == <<sq[1] + ray[k][1], sq[2] + ray[k][2]>>

\* The square holds a piece with probability 1.
Certain(data, sq) == DataAt(data, sq) # None /\ DataAt(data, sq)[3] = One

\* The castling hook: a rook on a corner of its home rank meets its own king,
\* placed with probability 1 on the e file.
Hook(rule, color, sq, to, data) ==
    /\ rule = ROOK
    /\ DataAt(data, to)[2] = KING
    /\ to[1] = 5
    /\ sq[1] \in {1, 8}
    /\ sq[2] = (IF color = WHITE THEN 1 ELSE 8)

PawnRan ==
    /\ last.op \in {"run", "fail"}
    /\ Len(last.source) = 1 /\ Len(last.target) = 1
    /\ Mover # 0
    /\ last.pre.pieces[Mover].name = PAWN

\* C21: a pawn's action straight ahead (same column, one or two rows) never
\* removes or changes a placement of an opposing piece.
C21_PawnAdvanceNeverCaptures ==
    (PawnRan /\ last.target[1][1] = last.source[1][1]) =>
        \A i \in 1..Len(chessboard.pieces) :
            last.pre.pieces[i].color # last.pre.pieces[Mover].color =>
                chessboard.pieces[i].places = last.pre.pieces[i].places

\* C22: a diagonal square is among the destinations generated for a pawn of
\* the side to move only if it holds an opposing piece with probability 1.
C22_PawnDiagonalNeedsCertainOpponent ==
    \A i \in 1..Len(chessboard.pieces) :
        LET piece == chessboard.pieces[i]
        IN  (piece.color = chessboard.color /\ piece.name = PAWN) =>
            \A j \in 1..Len(piece.places) :
                \A to \in Range(next(piece.rule, piece.color, Sq(piece.places[j]),
                                      chessboard.data)) :
                    to[1] # piece.places[j][1] =>
                        /\ DataAt(chessboard.data, to) # None
                        /\ DataAt(chessboard.data, to)[1] # piece.color
                        /\ DataAt(chessboard.data, to)[3] = One

\* C23: the square two rows ahead is among the destinations generated for a
\* pawn of the side to move only if the square one row ahead holds no piece with
\* probability 1.
C23_PawnNeverJumps ==
    \A i \in 1..Len(chessboard.pieces) :
        LET piece == chessboard.pieces[i]
        IN  (piece.color = chessboard.color /\ piece.name = PAWN) =>
            \A j \in 1..Len(piece.places) :
                \A to \in Range(next(piece.rule, piece.color, Sq(piece.places[j]),
                                      chessboard.data)) :
                    (to[1] = piece.places[j][1] /\ Abs(to[2] - piece.places[j][2]) = 2) =>
                        LET mid == <<to[1], (to[2] + piece.places[j][2]) \div 2>>
                        IN  \/ DataAt(chessboard.data, mid) = None
                            \/ DataAt(chessboard.data, mid)[3] # One

\* C24: the undo stack holds one snapshot per action applied to the current
\* game: a run that succeeds adds one snapshot, a run that fails leaves the
\* stack as it was, an undo takes one off, and setting a board (new game or
\* saved id) leaves it empty.
C24_OneSnapshotPerAppliedAction ==
    [][/\ last'.op = "run" => Len(stack') = Len(stack) + 1
       /\ last'.op = "fail" => stack' = stack
       /\ last'.op = "undo" => Len(stack') = Len(stack) - 1
       /\ last'.op \in {"new", "load"} => stack' = <<>>]_vars

\* The probability of the first placement of the list on the square.
ProbAt(places, sq) == places[PlaceIndex(places, sq)][3]

\* C25: after a split (one source, two targets) the moving piece has lost its
\* source placement of probability p and holds p/2 on each target; every other
\* piece's placement on a target now stands on the source square with the same
\* probability, and nothing else has changed.
C25_SplitHalves ==
    (last.op = "run" /\ last.fired = "Split") =>
        LET src == last.source[1]
            t0 == last.target[1]
            t1 == last.target[2]
            before == last.pre.pieces
            half == ProbAt(before[Mover].places, src) \div 2
        IN  /\ Range(chessboard.pieces[Mover].places) =
                    {pl \in Range(before[Mover].places) : Sq(pl) # src}
                        \cup {<<t0[1], t0[2], half>>, <<t1[1], t1[2], half>>}
            /\ \A i \in 1..Len(before) : i # Mover =>
                    Range(chessboard.pieces[i].places) =
                        {IF Sq(pl) \in {t0, t1} THEN <<src[1], src[2], pl[3]>> ELSE pl :
                            pl \in Range(before[i].places)}

\* C26: an attack measures the attacker. When the attacker is left on the
\* target alone with probability 1, exactly one other piece has changed: an
\* opposing piece that lost its placement on the target and nothing else. In
\* every other outcome no piece but the attacker has changed. So no friendly
\* piece loses a placement through an attack.
C26_AttackRemovesOneOpposingPlacement ==
    (last.op = "run" /\ last.fired = "Attack") =>
        LET before == last.pre.pieces
            after == chessboard.pieces
            tgt == last.target[1]
        IN  IF after[Mover].places = <<<<tgt[1], tgt[2], One>>>>
            THEN \E d \in 1..Len(before) :
                    /\ d # Mover
                    /\ before[d].color # before[Mover].color
                    /\ pfind(before[d].places, tgt)
                    /\ after[d].places = remove(before[d].places, tgt)
                    /\ (after[d].places = <<>>) <=> (Len(before[d].places) = 1)
                    /\ \A i \in 1..Len(before) :
                            i \notin {Mover, d} => after[i].places = before[i].places
            ELSE \A i \in 1..Len(before) :
                    i # Mover => after[i].places = before[i].places

\* C27: after a meeting of two friendly pieces of different kinds the moving
\* piece and the piece that stood on the target do not both hold a placement
\* on the target; after a meeting of two pieces of the same kind each of them
\* has the total probability it had before.
C27_MeetLeavesOneOnTarget ==
    (last.op = "run" /\ last.fired = "Meet") =>
        LET before == last.pre.pieces
            after == chessboard.pieces
            d == find(last.target[1], before)
        IN  IF before[Mover].name # before[d].name
            THEN ~(pfind(after[Mover].places, last.target[1])
                   /\ pfind(after[d].places, last.target[1]))
            ELSE /\ SumProb(after[Mover].places) = SumProb(before[Mover].places)
                 /\ SumProb(after[d].places) = SumProb(before[d].places)

\* The squares strictly between two squares of one row, column or diagonal, as
\* step numbers from the first; none for any other pair (a knight's move).
Between(from, to) ==
    IF from[1] # to[1] /\ from[2] # to[2] /\ Abs(to[1] - from[1]) # Abs(to[2] - from[2])
    THEN {}
    ELSE 1..(Max(Abs(to[1] - from[1]), Abs(to[2] - from[2])) - 1)
Along(from, to, k) ==
    <<from[1] + k * Sign(to[1] - from[1]), from[2] + k * Sign(to[2] - from[2])>>

\* A move that is no promotion was applied to an empty target.
MovedPlain ==
    /\ last.op = "run" /\ last.fired = "Move"
    /\ ~(last.pre.pieces[Mover].name = PAWN
          /\ last.target[1][2] = PromotionRank(last.pre.pieces[Mover].color))

\* C28: a move that is no promotion, from a source held with probability p to
\* an empty target: if p < 1 the source placement becomes (target, p); if
\* p = 1 and the first occupied square between source and target holds a
\* piece with probability q > 0, the mover ends with (source, 1 - q) and
\* (target, q); otherwise with (target, 1). The mover's total is unchanged
\* and no other piece changes.
C28_MoveToEmptyTarget ==
    MovedPlain =>
        LET before == last.pre.pieces
            after == chessboard.pieces
            src == last.source[1]
            tgt == last.target[1]
            prob == ProbAt(before[Mover].places, src)
            rest == Range(remove(before[Mover].places, src))
            held(sq) == {pl[3] : pl \in {x \in UNION {Range(before[i].places) :
                                            i \in 1..Len(before)} : Sq(x) = sq}}
            road == {k \in Between(src, tgt) : held(Along(src, tgt, k)) # {}}
            first == CHOOSE k \in road : \A m \in road : k <= m
            qs == IF road = {} THEN {}
                  ELSE {q \in held(Along(src, tgt, first)) : q > 0}
        IN  /\ IF prob < One
               THEN Range(after[Mover].places) = rest \cup {<<tgt[1], tgt[2], prob>>}
               ELSE IF qs # {}
               THEN \E q \in qs :
                        Range(after[Mover].places) =
                            rest \cup {<<src[1], src[2], One - q>>, <<tgt[1], tgt[2], q>>}
               ELSE Range(after[Mover].places) = rest \cup {<<tgt[1], tgt[2], One>>}
            /\ SumProb(after[Mover].places) = SumProb(before[Mover].places)
            /\ \A i \in 1..Len(before) : i # Mover => after[i] = before[i]

\* A piece placed with probability 1 has moved past a superposed piece and is
\* now in superposition between its source and its target.
C28_MovedPastSuperposition ==
    /\ MovedPlain
    /\ ProbAt(last.pre.pieces[Mover].places, last.source[1]) = One
    /\ \E k \in Between(last.source[1], last.target[1]) :
            /\ DataAt(last.pre.data, Along(last.source[1], last.target[1], k)) # None
            /\ DataAt(last.pre.data, Along(last.source[1], last.target[1], k))[3] = Half
    /\ Len(chessboard.pieces[Mover].places) = 2
    /\ pfind(chessboard.pieces[Mover].places, last.source[1])

\* The rules whose condition holds for an action on a board.
Matching(b, a) ==
    LET piece == b.pieces[get_piece(b.pieces, a[1])]
    IN  {r \in 1..Len(Rules) :
            condition(Rules[r], piece.color, piece.name, a[1], a[2], b.data)}

\* The priority order in which the rules are said to be tried.
Priority == <<"Castling", "Move", "Attack", "Meet", "Split", "Merge">>

\* C29: for every generated action exactly one rule's condition holds, and the
\* rule move_piece applied to a generated action is the first of the order
\* Castling, Move, Attack, Meet, Split, Merge whose condition held.
C29_ExactlyOneRuleMatches ==
    /\ \A a \in Range(actions(chessboard)) : Cardinality(Matching(chessboard, a)) = 1
    /\ (last.op \in {"run", "fail"} /\ last.legal) =>
            \E k \in 1..Len(Priority) :
                /\ last.fired = Priority[k]
                /\ \E r \in Matching(last.pre, <<last.source, last.target>>) :
                        Rules[r] = Priority[k]
                /\ \A j \in 1..(k - 1) :
                        \A r \in Matching(last.pre, <<last.source, last.target>>) :
                            Rules[r] # Priority[j]

\* A castling was applied, and actions are generated for the side now to move.
C29_CastlingApplied ==
    /\ last.op = "run" /\ last.fired = "Castling"
    /\ actions(chessboard) # <<>>

\* C30: on every board reached by generated actions from a board whose
\* placements are on pairwise distinct squares, no piece holds two placements
\* on the same square.
C30_NoPieceTwiceOnOneSquare ==
    \A i \in 1..Len(chessboard.pieces) :
        \A j \in 1..Len(chessboard.pieces[i].places) :
            \A k \in 1..Len(chessboard.pieces[i].places) :
                Sq(chessboard.pieces[i].places[j]) = Sq(chessboard.pieces[i].places[k])
                    => j = k

\* C31: a castling from (1,r) moves the rook's source placement to (4,r) and
\* the king's placement to (3,r) with record "0-0-0"; from (8,r) the rook goes
\* to (6,r) and the king to (7,r) with record "0-0". Both placements keep
\* their probability, no other piece changes, and neither destination square
\* holds a placement of any other piece.
C31_CastlingPlacements ==
    (last.op = "run" /\ last.fired = "Castling") =>
        LET before == last.pre.pieces
            after == chessboard.pieces
            src == last.source[1]
            tgt == last.target[1]
            long == src[1] = 1
            rookTo == <<IF long THEN 4 ELSE 6, src[2]>>
            kingTo == <<IF long THEN 3 ELSE 7, src[2]>>
            king == CHOOSE i \in 1..Len(before) :
                        before[i].name = KING /\ pfind(before[i].places, tgt)
        IN  /\ src[1] \in {1, 8}
            /\ chessboard.record = (IF long THEN "0-0-0" ELSE "0-0")
            /\ Range(after[Mover].places) =
                    Range(remove(before[Mover].places, src))
                        \cup {<<rookTo[1], rookTo[2], ProbAt(before[Mover].places, src)>>}
            /\ Range(after[king].places) =
                    Range(remove(before[king].places, tgt))
                        \cup {<<kingTo[1], kingTo[2], ProbAt(before[king].places, tgt)>>}
            /\ \A i \in 1..Len(before) : i \notin {Mover, king} => after[i] = before[i]
            /\ \A i \in 1..Len(after) :
                    /\ i # Mover => ~pfind(after[i].places, rookTo)
                    /\ i # king => ~pfind(after[i].places, kingTo)

\* The pieces of a colour standing on a square with probability 1.
CertainOn(b, color, sq) ==
    {i \in 1..Len(b.pieces) :
        /\ b.pieces[i].color = color
        /\ \E j \in 1..Len(b.pieces[i].places) :
                b.pieces[i].places[j] = <<sq[1], sq[2], One>>}

HomeRank(color) == IF color = WHITE THEN 1 ELSE 8

\* C32: a generated action has a target on which a friendly piece stands with
\* probability 1 only as a castling: one source, a rook's placement on (1,r)
\* or (8,r) with r the mover's home rank, one target, the friendly king on
\* (5,r) with probability 1, and no piece with probability 1 between them.
\* No action of a king has such a target.
C32_FriendlyTargetOnlyByCastling ==
    \A a \in Range(actions(chessboard)) :
        \A t \in 1..Len(a[2]) :
            CertainOn(chessboard, chessboard.color, a[2][t]) # {} =>
                LET src == a[1][1]
                    r == HomeRank(chessboard.color)
                    piece == chessboard.pieces[get_piece(chessboard.pieces, a[1])]
                IN  /\ IsSimple(a)
                    /\ piece.name = ROOK /\ piece.color = chessboard.color
                    /\ src \in {<<1, r>>, <<8, r>>}
                    /\ a[2][1] = <<5, r>>
                    /\ \E k \in CertainOn(chessboard, chessboard.color, a[2][1]) :
                            chessboard.pieces[k].name = KING
                    /\ \A k \in Between(src, a[2][1]) :
                            /\ CertainOn(chessboard, WHITE, Along(src, a[2][1], k)) = {}
                            /\ CertainOn(chessboard, BLACK, Along(src, a[2][1], k)) = {}

\* After a move has been played the side to move can castle past a square that
\* a piece holds in superposition.
C32_CastlingGenerated ==
    /\ last.op = "run"
    /\ \E a \in Range(actions(chessboard)) :
            /\ IsSimple(a)
            /\ CertainOn(chessboard, chessboard.color, a[2][1]) # {}
            /\ \E k \in Between(a[1][1], a[2][1]) :
                    DataAt(chessboard.data, Along(a[1][1], a[2][1], k)) # None

\* The pieces that hold a placement on a square.
PiecesOn(b, sq) == {i \in 1..Len(b.pieces) : pfind(b.pieces[i].places, sq)}

\* The pieces of the side to move, pawns excepted, placed on a square.
Splitters(b, sq) ==
    {i \in PiecesOn(b, sq) : b.pieces[i].color = b.color /\ b.pieces[i].name # PAWN}

\* A square that is empty or holds only pieces of the colour and kind of piece i.
Fits(b, i, sq) ==
    \A k \in PiecesOn(b, sq) :
        b.pieces[k].color = b.pieces[i].color /\ b.pieces[k].name = b.pieces[i].name

\* C33: the generated actions contain the split of s to two distinct squares
\* d1, d2 (in one of the two orders) iff s is a placement of a piece of the
\* side to move that is no pawn, s->d1 and s->d2 are both basic moves, and
\* each of d1, d2 is empty or holds a piece of the mover's colour and kind.
\* No split is generated from a square on which a pawn of the side to move
\* stands alone.
C33_SplitEnumeration ==
    LET acts == Range(actions(chessboard))
        basic == Range(BasicActions(chessboard, chessboard.color))
        sources == {x[1][1] : x \in basic}
        \* the squares piece i may split to from s
        open(s, i) == {x[2][1] : x \in {y \in basic : y[1][1] = s
                                                        /\ Fits(chessboard, i, y[2][1])}}
        pairs(to) == {p \in to \X to : p[1] # p[2]}
        allowed == UNION {UNION {{<<<<s>>, p>> : p \in pairs(open(s, i))} :
                                    i \in Splitters(chessboard, s)} : s \in sources}
    IN  /\ {a \in acts : Len(a[1]) = 1 /\ Len(a[2]) = 2} \subseteq allowed
        /\ \A a \in allowed : a \in acts \/ <<a[1], <<a[2][2], a[2][1]>>>> \in acts

\* C34: a generated action with two sources ((s1, s2), (d,)) has s1 # s2, both
\* placements of one piece of the side to move, a basic move from each to d,
\* and no placement of any piece on d. Applying it removes the piece's
\* placements on s1 and s2 and adds one placement on d whose probability is
\* their sum; the piece's total and every other piece are unchanged.
C34_Merge ==
    /\ LET basic == Range(BasicActions(chessboard, chessboard.color))
       IN  \A a \in Range(actions(chessboard)) :
                Len(a[1]) = 2 =>
                    /\ Len(a[2]) = 1
                    /\ a[1][1] # a[1][2]
                    /\ \E i \in PiecesOn(chessboard, a[1][1]) :
                            /\ chessboard.pieces[i].color = chessboard.color
                            /\ pfind(chessboard.pieces[i].places, a[1][2])
                    /\ <<<<a[1][1]>>, a[2]>> \in basic
                    /\ <<<<a[1][2]>>, a[2]>> \in basic
                    /\ PiecesOn(chessboard, a[2][1]) = {}
    /\ (last.op = "run" /\ last.fired = "Merge") =>
            LET before == last.pre.pieces
                after == chessboard.pieces
                s1 == last.source[1]
                s2 == last.source[2]
                d == last.target[1]
            IN  \E i \in 1..Len(before) :
                    /\ before[i].color = last.pre.color
                    /\ pfind(before[i].places, s1) /\ pfind(before[i].places, s2)
                    /\ ~pfind(after[i].places, s1) /\ ~pfind(after[i].places, s2)
                    /\ Len(after[i].places) = Len(before[i].places) - 1
                    /\ Range(after[i].places) =
                            Range(remove(remove(before[i].places, s1), s2))
                                \cup {<<d[1], d[2], ProbAt(before[i].places, s1)
                                                        + ProbAt(before[i].places, s2)>>}
                    /\ SumProb(after[i].places) = SumProb(before[i].places)
                    /\ \A k \in 1..Len(before) : k # i => after[k] = before[k]

\* A piece in superposition has been merged onto one square, where it stands
\* with the probability it had on both.
C34_Merged ==
    /\ last.op = "run" /\ last.fired = "Merge"
    /\ \E i \in PiecesOn(chessboard, last.target[1]) :
            /\ ProbAt(chessboard.pieces[i].places, last.target[1]) = One
            /\ Len(last.pre.pieces[i].places) = 2

\* C35: every destination generated for a white pawn has a strictly larger
\* row than its source and for a black pawn a strictly smaller row; a
\* destination two rows away is generated only from the home row (2 for
\* White, 7 for Black); every target of every generated action, of either
\* side and of every piece kind, has column and row in 1..8.
C35_PawnDirection ==
    \A color \in {WHITE, BLACK} :
        LET b == [chessboard EXCEPT !.color = color]
        IN  /\ \A a \in Range(actions(b)) :
                    \A t \in 1..Len(a[2]) : a[2][t] \in (1..8) \X (1..8)
            /\ \A a \in Range(BasicActions(b, color)) :
                    LET piece == b.pieces[get_piece(b.pieces, a[1])]
                        from == a[1][1][2]
                        to == a[2][1][2]
                    IN  piece.name = PAWN =>
                            /\ piece.color = WHITE => to > from
                            /\ piece.color = BLACK => to < from
                            /\ Abs(to - from) = 2 =>
                                    from = (IF piece.color = WHITE THEN 2 ELSE 7)

\* After a move a pawn that has left its home row has a destination, and a
\* pawn on its home row has one two rows away.
C35_PawnsAdvance ==
    /\ last.op = "run"
    /\ \E color \in {WHITE, BLACK} :
            \E a \in Range(BasicActions(chessboard, color)) :
                /\ chessboard.pieces[get_piece(chessboard.pieces, a[1])].name = PAWN
                /\ a[1][1][2] \notin {2, 7}
    /\ \E color \in {WHITE, BLACK} :
            \E a \in Range(BasicActions(chessboard, color)) :
                /\ chessboard.pieces[get_piece(chessboard.pieces, a[1])].name = PAWN
                /\ Abs(a[2][1][2] - a[1][1][2]) = 2

\* The board after an action whose simulation has one outcome.
Child(b, a) == (CHOOSE o \in move_piece(copy(b), a[1], a[2]) : TRUE).board

\* Simulation from b is deterministic for d plies: no move has two outcomes.
RECURSIVE Deterministic(_, _)
Deterministic(b, d) ==
    d = 0 \/ \A a \in Range(actions(b)) :
                /\ Cardinality(move_piece(copy(b), a[1], a[2])) = 1
                /\ Deterministic(Child(b, a), d - 1)

\* The depth-limited minimax value of a position with d plies to look ahead:
\* the static evaluation when d = 0, -inf (White to move) or +inf (Black to
\* move) when the side to move has no action, else the maximum (White) or
\* minimum (Black) over the actions of the value of the position they lead to.
RECURSIVE NodeValue(_, _)
NodeValue(b, d) ==
    IF d = 0 THEN RelativeStrength(b.data)
    ELSE IF actions(b) = <<>> THEN (IF b.color = WHITE THEN -Infinity ELSE Infinity)
    ELSE LET below == {NodeValue(Child(b, a), d - 1) : a \in Range(actions(b))}
         IN  IF b.color = WHITE THEN CHOOSE v \in below : \A w \in below : w <= v
             ELSE CHOOSE v \in below : \A w \in below : v <= w

\* The root actions whose value is the optimum for the side to move, looking
\* d plies below the root.
Optimal(b, d) ==
    {a \in Range(actions(b)) : NodeValue(Child(b, a), d - 1) = NodeValue(b, d)}

\* C36: on a position with an action where simulation is deterministic, every
\* root action AlphaBeta(depth D) may apply has a depth-limited minimax value
\* equal to the optimum for the side to move, also when that optimum is +inf
\* or -inf.
C36_AlphaBetaOptimal ==
    (actions(chessboard) # <<>> /\ Deterministic(chessboard, deepth)) =>
        AlphaBetaAgent_run(chessboard) \subseteq Optimal(chessboard, deepth)

\* C37: on a position with an action where simulation is deterministic,
\* Minimax(depth D) gives every root action the maximum (White to move) or
\* minimum (Black to move) backed up from the static evaluations D plies
\* below the root, a node without action counting -inf for White and +inf
\* for Black, and applies a root action whose value is the best.
C37_MinimaxBacksUp ==
    (actions(chessboard) # <<>> /\ Deterministic(chessboard, minimax_deepth + 1)) =>
        /\ MinimaxAgent_minimax(minimax_deepth, chessboard) =
                {[i \in 1..Len(actions(chessboard)) |->
                    NodeValue(Child(chessboard, actions(chessboard)[i]), minimax_deepth - 1)]}
        /\ MinimaxAgent_run(chessboard) \subseteq Optimal(chessboard, minimax_deepth)

\* C38: once the winner is WHITE or BLACK a later run changes neither the
\* winner nor the pieces, so a run never takes the board from a decided game
\* to DRAW.
C38_DecidedGameStops ==
    (last.op \in {"run", "fail"} /\ game_over(last.pre.pieces) \in {"WHITE", "BLACK"}) =>
        /\ game_over(chessboard.pieces) = game_over(last.pre.pieces)
        /\ chessboard.pieces = last.pre.pieces

\* The lineages the beam search can hold after its first ply, and after its
\* last ply, on board b.
BeamFirst(b) == {Keep(b.color, SortByVal(branch)) : branch \in Branches(<<>>, b, actions(b))}
BeamFinal(b) == UNION {Deepen(deepth - 1, b.color, items) : items \in BeamFirst(b)}

RECURSIVE Power(_, _)
Power(w, k) == IF k = 0 THEN 1 ELSE w * Power(w, k - 1)

\* The minimax value of the retained lines that agree on their first k - 1
\* actions, with `color` to choose the k-th.
RECURSIVE TreeValue(_, _, _)
TreeValue(color, lines, k) ==
    IF Len(lines[1].path) < k THEN lines[1].val
    ELSE LET below == {TreeValue(Other(color),
                                 SelectSeq(lines, LAMBDA l : l.path[k] = a), k + 1) :
                            a \in {lines[i].path[k] : i \in 1..Len(lines)}}
         IN  IF color = WHITE THEN CHOOSE v \in below : \A w \in below : w <= v
             ELSE CHOOSE v \in below : \A w \in below : v <= w

\* C39: Beam(depth D, width W) keeps at most W lineages after ply 1, none of
\* them statically worse for the side to move than an action it dropped, and
\* at most W^D after ply D; whenever the root has an action the agent applies
\* one, it is the first action of a lineage kept after ply 1, and its value is
\* the minimax optimum over the retained lineages.
C39_BeamKeepsAndApplies ==
    LET b == chessboard
        acts == actions(b)
        better(v, w) == IF b.color = WHITE THEN v >= w ELSE v <= w
    IN  acts # <<>> =>
            /\ \A branch \in Branches(<<>>, b, acts) :
                    LET kept == Keep(b.color, SortByVal(branch))
                    IN  /\ Len(kept) <= size
                        /\ \A i \in 1..Len(kept) : \A j \in 1..Len(branch) :
                                \/ \E k \in 1..Len(kept) : kept[k].path = branch[j].path
                                \/ better(kept[i].val, branch[j].val)
            /\ \A lines \in BeamFinal(b) : Len(lines) <= Power(size, deepth)
            /\ \A a \in BeamSearch(b) :
                    /\ a # None
                    /\ \E kept \in BeamFirst(b) : \E i \in 1..Len(kept) : kept[i].path = <<a>>
            /\ Cardinality(BeamFinal(b)) = 1 =>
                    \A lines \in BeamFinal(b) : \A a \in BeamSearch(b) :
                        (lines # <<>> /\ a # None) =>
                            TreeValue(Other(b.color),
                                      SelectSeq(lines, LAMBDA l : l.path[1] = a), 2)
                                = TreeValue(b.color, lines, 1)

====
